---------------------------- MODULE Spec2Model ----------------------------
(***************************************************************************)
(* Model of the tire-strategy engine of src/f1_mcp_server.py               *)
(* (class F1DataAnalyzer): the memoizing fetcher get_data, the stint       *)
(* resolver (_get_stint_laps, _detect_stints_from_lap_times), the          *)
(* degradation estimator _calculate_degradation and the aggregator         *)
(* analyze_tire_strategy / _analyze_from_laps_only.                        *)
(*                                                                         *)
(* Representation of Python values:                                        *)
(*   - None is the empty tuple <<>>, the number n is the 1-tuple <<n>>;    *)
(*   - a dict is a record; a key the dict does not have is a field the     *)
(*     record does not have (d.get(k) is Get(d, k));                       *)
(*   - a list is a sequence;                                               *)
(*   - a float is an integer count of a fixed unit, and every float        *)
(*     operation rounds its exact result to FloatBits significant bits,    *)
(*     ties to even, as IEEE-754 does with 53 bits.                        *)
(***************************************************************************)
EXTENDS Integers, Sequences, FiniteSets, TLC

VARIABLES
    pc,           \* position of the running analyze_tire_strategy call
    args,         \* its arguments session_key and driver_number
    cache,        \* F1DataAnalyzer.cache: cache key -> memoized response
    requests,     \* HTTP requests issued so far, per cache key
    stints_data,  \* local of analyze_tire_strategy
    laps_data,    \* local of analyze_tire_strategy
    result,       \* dict returned by analyze_tire_strategy
    calls,        \* get_data coroutines in flight, per caller
    lap_times,    \* argument of _calculate_degradation
    degradation,  \* value returned by _calculate_degradation
    session,      \* F1DataAnalyzer.session: not created, open or closed
    name,         \* the tool handle_call_tool was called for
    conversation_history,  \* MCPChatbot.conversation_history
    state         \* LoLAnalyzer.state

vars == <<pc, args, cache, requests, stints_data, laps_data, result,
          calls, lap_times, degradation, session, name,
          conversation_history, state>>

-----------------------------------------------------------------------------
(* Bounds of the model *)

\* longest lap list the timing service returns
MaxLaps == 3
\* longest stint-descriptor list the timing service returns
MaxStints == 2
\* longest argument of _calculate_degradation explored on its own
MaxTimes == 3
\* significant bits of a float (53 in CPython)
FloatBits == 8
\* HTTP requests explored per analyzer instance in the fetcher model
MaxRequests == 3

-----------------------------------------------------------------------------
(* Python values *)

None == <<>>

\* self.session before __aenter__ has created the aiohttp.ClientSession
NoSession == "None"

\* LoLAnalyzer.state as __init__ builds it
NewAdvisorState ==
    [matchup    |-> [ally_champion |-> None, ally_characteristic |-> None,
                     enemy_team |-> <<>>],
     dd         |-> None,
     dd_version |-> None,
     lang       |-> "en_US"]

Num(n) == <<n>>

\* bool(v) for v None or a number
Truthy(v) == v # None /\ v[1] # 0

\* d.get(k)
Get(d, k) == IF k \in DOMAIN d THEN d[k] ELSE None

\* d.get(k, default)
GetDefault(d, k, default) == IF k \in DOMAIN d THEN d[k] ELSE default

RECURSIVE SumInts(_)
SumInts(s) == IF s = <<>> THEN 0 ELSE s[1] + SumInts(Tail(s))

RECURSIVE Pow2(_)
Pow2(k) == IF k = 0 THEN 1 ELSE 2 * Pow2(k - 1)

Abs(x) == IF x < 0 THEN 0 - x ELSE x

Sign(x) == IF x > 0 THEN 1 ELSE IF x < 0 THEN 0 - 1 ELSE 0

-----------------------------------------------------------------------------
(* Float arithmetic *)

\* number of low bits a magnitude a loses when stored in FloatBits bits
RECURSIVE LostBits(_)
LostBits(a) == IF a < Pow2(FloatBits) THEN 0 ELSE 1 + LostBits(a \div 2)

\* q or q + 1: the quotient q with remainder r of a division by unit, rounded
\* to nearest, ties to even
RoundedQuotient(q, r, unit) ==
    IF 2 * r > unit \/ (2 * r = unit /\ q % 2 = 1) THEN q + 1 ELSE q

\* x rounded to a multiple of unit
RoundToUnit(x, unit) ==
    Sign(x) * unit * RoundedQuotient(Abs(x) \div unit, Abs(x) % unit, unit)

\* the float nearest to the exact value x, ties to even
RoundFloat(x) ==
    IF Abs(x) < Pow2(FloatBits) THEN x ELSE RoundToUnit(x, Pow2(LostBits(Abs(x))))

FAdd(a, b) == RoundFloat(a + b)

FSub(a, b) == RoundFloat(a - b)

FMul(a, b) == RoundFloat(a * b)

\* builtin sum() up to CPython 3.11: left-to-right additions, each rounded
RECURSIVE SumSequential(_, _)
SumSequential(acc, s) ==
    IF s = <<>> THEN acc ELSE SumSequential(FAdd(acc, s[1]), Tail(s))

\* One step of the Neumaier summation of CPython 3.12 and later, with
\* t = f_result + x: the new <<f_result, c>>
NeumaierStep(f_result, c, x, t) ==
    <<t, FAdd(c, IF Abs(f_result) >= Abs(x)
                 THEN FAdd(FSub(f_result, t), x)
                 ELSE FAdd(FSub(x, t), f_result))>>

\* builtin sum() from CPython 3.12 on: Neumaier compensated summation
\* st = <<f_result, c>>
RECURSIVE SumNeumaier(_, _)
SumNeumaier(st, s) ==
    IF s = <<>>
    THEN IF st[2] # 0 THEN FAdd(st[1], st[2]) ELSE st[1]
    ELSE SumNeumaier(NeumaierStep(st[1], st[2], s[1], FAdd(st[1], s[1])), Tail(s))

SumImpls == {"sequential", "compensated"}

\* sum(s) for a list of floats
SumFloats(impl, s) ==
    IF impl = "sequential" THEN SumSequential(0, s) ELSE SumNeumaier(<<0, 0>>, s)


\* round(num / den, digits) as a count of the last digit kept, den > 0;
\* scale = 10^digits. Python rounds halves to even.
RoundRatio(num, den, scale) ==
    Sign(num) * RoundedQuotient((Abs(num) * scale) \div den, (Abs(num) * scale) % den, den)

\* round(f, digits) for the float kept as the fraction f
RoundFraction(f, scale) == RoundRatio(f[1], f[2], scale)

-----------------------------------------------------------------------------
(* Degradation estimator *)

\* a lap-to-lap improvement larger than this starts a new stint (seconds)
ImprovementThreshold == 3

\* [i * time for i, time in enumerate(lap_times)]
IndexTimes(times) == [i \in 1..Len(times) |-> FMul(i - 1, times[i])]

\* sum(range(n))
SumRange(n) == SumInts([i \in 1..n |-> i - 1])

\* sum(i * i for i in range(n))
SumSquares(n) == SumInts([i \in 1..n |-> (i - 1) * (i - 1)])

\* SlopeNumerator with the operands of the subtraction exchanged
SlopeNumeratorSwapped(n, x_sum, y_sum, xy_sum) ==
    FSub(FMul(x_sum, y_sum), FMul(n, xy_sum))

\* n * xy_sum - x_sum * y_sum, evaluated in floats
SlopeNumerator(n, x_sum, y_sum, xy_sum) ==
    FSub(FMul(n, xy_sum), FMul(x_sum, y_sum))

\* _calculate_degradation with a floor of two points instead of three
_calculate_degradation_two_points(impl, times) ==
    IF Len(times) < 2 THEN <<0, 1>>
    ELSE LET n           == Len(times)
             x_sum       == SumRange(n)
             y_sum       == SumFloats(impl, times)
             xy_sum      == SumFloats(impl, IndexTimes(times))
             x2_sum      == SumSquares(n)
             denominator == n * x2_sum - x_sum * x_sum
         IN  IF denominator = 0 THEN <<0, 1>>
             ELSE <<SlopeNumerator(n, x_sum, y_sum, xy_sum), denominator>>

\* The float returned is kept as the fraction <<numerator, denominator>>
\* of the rounded numerator and the integer denominator; 0.0 is <<0, 1>>.
_calculate_degradation(impl, times) ==
    IF Len(times) < 3 THEN <<0, 1>>
    ELSE LET n           == Len(times)
             x_sum       == SumRange(n)
             y_sum       == SumFloats(impl, times)
             xy_sum      == SumFloats(impl, IndexTimes(times))
             x2_sum      == SumSquares(n)
             denominator == n * x2_sum - x_sum * x_sum
         IN  IF denominator = 0 THEN <<0, 1>>
             ELSE <<SlopeNumerator(n, x_sum, y_sum, xy_sum), denominator>>

-----------------------------------------------------------------------------
(* Stint resolver *)

\* ValidLap without the comparison with 0
ValidLapAnySign(lap) == Truthy(Get(lap, "lap_duration"))

\* lap.get("lap_duration") and lap["lap_duration"] > 0
ValidLap(lap) ==
    /\ Truthy(Get(lap, "lap_duration"))
    /\ lap["lap_duration"][1] > 0

\* ValidTimes keeping the laps with a negative duration
ValidTimesAnySign(laps) ==
    LET valid == SelectSeq(laps, ValidLapAnySign)
    IN  [i \in 1..Len(valid) |-> valid[i]["lap_duration"][1]]

\* [lap["lap_duration"] for lap in laps if <valid>]
ValidTimes(laps) ==
    LET valid == SelectSeq(laps, ValidLap)
    IN  [i \in 1..Len(valid) |-> valid[i]["lap_duration"][1]]

\* laps_data[start_idx:end_idx] with 0-based, possibly out-of-range indices
Slice(s, start_idx, end_idx) ==
    LET lo == IF start_idx > Len(s) THEN Len(s) ELSE start_idx
        hi == IF end_idx > Len(s) THEN Len(s) ELSE end_idx
    IN  IF hi <= lo THEN <<>> ELSE SubSeq(s, lo + 1, hi)

\* Method 3 of _get_stint_laps: the position of the stint in its own
\* "session_stints" list; next() on an empty generator raises and the bare
\* except returns [].
PositionalLaps(stint, laps) ==
    LET session_stints == GetDefault(stint, "session_stints", <<>>)
        hits == {i \in 1..Len(session_stints) : session_stints[i] = stint}
    IN  IF hits = {} THEN <<>>
        ELSE LET stint_index == (CHOOSE i \in hits : \A j \in hits : i <= j) - 1
                 total_stints == Len(session_stints)
                 laps_per_stint == IF total_stints > 0
                                   THEN Len(laps) \div total_stints
                                   ELSE Len(laps)
             IN  Slice(laps, stint_index * laps_per_stint,
                       (stint_index + 1) * laps_per_stint)

LapsByStintNumber(stint_number, laps) ==
    LET Same(lap) == Get(lap, "stint_number") = stint_number
    IN  SelectSeq(laps, Same)

LapsByRange(lap_start, lap_end, laps) ==
    LET Inside(lap) == /\ Truthy(Get(lap, "lap_number"))
                       /\ lap_start[1] <= lap["lap_number"][1]
                       /\ lap["lap_number"][1] <= lap_end[1]
    IN  SelectSeq(laps, Inside)

\* _get_stint_laps trying the lap range before the stint number
_get_stint_laps_range_first(stint, laps) ==
    LET stint_number == Get(stint, "stint_number")
        lap_start    == Get(stint, "lap_start")
        lap_end      == Get(stint, "lap_end")
        by_number    == IF stint_number # None
                        THEN LapsByStintNumber(stint_number, laps) ELSE <<>>
        by_range     == IF lap_start # None /\ lap_end # None
                        THEN LapsByRange(lap_start, lap_end, laps) ELSE <<>>
    IN  IF by_range # <<>> THEN by_range
        ELSE IF by_number # <<>> THEN by_number
        ELSE PositionalLaps(stint, laps)

_get_stint_laps(stint, laps) ==
    LET stint_number == Get(stint, "stint_number")
        lap_start    == Get(stint, "lap_start")
        lap_end      == Get(stint, "lap_end")
        by_number    == IF stint_number # None
                        THEN LapsByStintNumber(stint_number, laps) ELSE <<>>
        by_range     == IF lap_start # None /\ lap_end # None
                        THEN LapsByRange(lap_start, lap_end, laps) ELSE <<>>
    IN  IF by_number # <<>> THEN by_number
        ELSE IF by_range # <<>> THEN by_range
        ELSE PositionalLaps(stint, laps)

\* DetectWalk splitting also at an improvement of exactly the threshold
RECURSIVE DetectWalkInclusive(_, _, _, _)
DetectWalkInclusive(valid_laps, i, stints, current_stint) ==
    IF i > Len(valid_laps) THEN Append(stints, current_stint)
    ELSE LET current_time == valid_laps[i]["lap_duration"][1]
             prev_time    == valid_laps[i - 1]["lap_duration"][1]
         IN  IF FSub(prev_time, current_time) >= ImprovementThreshold
             THEN DetectWalkInclusive(valid_laps, i + 1, Append(stints, current_stint),
                                      <<valid_laps[i]>>)
             ELSE DetectWalkInclusive(valid_laps, i + 1, stints,
                                      Append(current_stint, valid_laps[i]))

\* the loop of _detect_stints_from_lap_times over valid_laps[i], i >= 1
\* (i is 1-based here)
RECURSIVE DetectWalk(_, _, _, _)
DetectWalk(valid_laps, i, stints, current_stint) ==
    IF i > Len(valid_laps) THEN Append(stints, current_stint)
    ELSE LET current_time == valid_laps[i]["lap_duration"][1]
             prev_time    == valid_laps[i - 1]["lap_duration"][1]
         IN  IF FSub(prev_time, current_time) > ImprovementThreshold
             THEN DetectWalk(valid_laps, i + 1, Append(stints, current_stint),
                             <<valid_laps[i]>>)
             ELSE DetectWalk(valid_laps, i + 1, stints,
                             Append(current_stint, valid_laps[i]))

_detect_stints_from_lap_times(laps) ==
    IF Len(laps) < 3 THEN <<laps>>
    ELSE LET valid_laps == SelectSeq(laps, ValidLap)
         IN  IF Len(valid_laps) < 3 THEN <<laps>>
             ELSE LET stints == DetectWalk(valid_laps, 2, <<>>, <<valid_laps[1]>>)
                  IN  IF Len(stints) <= 1 THEN <<laps>> ELSE stints

-----------------------------------------------------------------------------
(* Stint aggregator *)

\* min() and max() of a list raise TypeError as soon as they compare None
\* with anything, that is when the list has two or more items, one of them None
MinMaxRaises(values) ==
    Len(values) >= 2 /\ \E i \in 1..Len(values) : values[i] = None

\* min(values), for a non-empty list on which min() does not raise
PyMin(values) ==
    IF Len(values) = 1 THEN values[1]
    ELSE LET ns == {values[i][1] : i \in 1..Len(values)}
         IN  Num(CHOOSE m \in ns : \A n \in ns : m <= n)

\* max(values), for a non-empty list on which max() does not raise
PyMax(values) ==
    IF Len(values) = 1 THEN values[1]
    ELSE LET ns == {values[i][1] : i \in 1..Len(values)}
         IN  Num(CHOOSE m \in ns : \A n \in ns : m >= n)

\* statistics.mean(times) rounded to 3 digits, in thousandths
RoundedMean(times) == RoundRatio(SumInts(times), Len(times), 1000)

\* round(sum(times), 3), in thousandths
RoundedSum(impl, times) == RoundRatio(SumFloats(impl, times), 1, 1000)

\* round(_calculate_degradation(times), 4), in ten-thousandths
RoundedDegradation(impl, times) ==
    RoundFraction(_calculate_degradation(impl, times), 10000)

\* PitStops with the subtraction forgotten
PitStopsOffByOne(stint_count) == IF stint_count > 0 THEN stint_count ELSE 0

\* the number of stints less one, never negative
PitStops(stint_count) == IF stint_count - 1 > 0 THEN stint_count - 1 ELSE 0

\* One iteration of the loop over stints_data in analyze_tire_strategy, for
\* the laps found by _get_stint_laps: skipped, raising, or the dict later
\* built from the TireStint. numbers is the list both min() and max() read;
\* both defaults of stint.get(..., min(...)) are evaluated before the lookup.
StintOutcomeOf(impl, stint, stint_laps, numbers) ==
    IF stint_laps = <<>> THEN [kind |-> "skip"]
    ELSE IF Len(ValidTimes(stint_laps)) < 1 THEN [kind |-> "skip"]
    ELSE IF MinMaxRaises(numbers) THEN [kind |-> "raise"]
    ELSE [kind  |-> "stint",
          stint |-> [compound   |-> GetDefault(stint, "compound", "Unknown"),
                     start_lap  |-> GetDefault(stint, "lap_start", PyMin(numbers)),
                     end_lap    |-> GetDefault(stint, "lap_end", PyMax(numbers)),
                     laps_count |-> Len(stint_laps),
                     avg_lap_time        |-> RoundedMean(ValidTimes(stint_laps)),
                     degradation_per_lap |->
                         RoundedDegradation(impl, ValidTimes(stint_laps)),
                     total_time          |-> RoundedSum(impl, ValidTimes(stint_laps))]]

\* [lap.get("lap_number", 0) for lap in stint_laps]
LapNumbersOrZero(stint_laps) ==
    [i \in 1..Len(stint_laps) |-> GetDefault(stint_laps[i], "lap_number", Num(0))]

StintOutcome(impl, stint, laps) ==
    StintOutcomeOf(impl, stint, _get_stint_laps(stint, laps),
                   LapNumbersOrZero(_get_stint_laps(stint, laps)))

\* the loop over stints_data: the list stints_analysis, or the exception
RECURSIVE StintsAnalysis(_, _, _, _)
RECURSIVE StintsAnalysisStep(_, _, _, _, _)
\* StintsAnalysisStep emitting an empty stint for a skipped descriptor
StintsAnalysisStepKeepingEmpty(impl, stints, laps, acc, outcome) ==
    IF outcome.kind = "raise" THEN [raised |-> TRUE]
    ELSE StintsAnalysis(impl, Tail(stints), laps,
                        IF outcome.kind = "stint" THEN Append(acc, outcome.stint)
                        ELSE Append(acc, [compound   |-> GetDefault(stints[1], "compound", "Unknown"),
                                          start_lap  |-> None,
                                          end_lap    |-> None,
                                          laps_count |-> 0,
                                          avg_lap_time        |-> 0,
                                          degradation_per_lap |-> 0,
                                          total_time          |-> 0]))

StintsAnalysisStep(impl, stints, laps, acc, outcome) ==
    IF outcome.kind = "raise" THEN [raised |-> TRUE]
    ELSE StintsAnalysis(impl, Tail(stints), laps,
                        IF outcome.kind = "stint" THEN Append(acc, outcome.stint) ELSE acc)

StintsAnalysis(impl, stints, laps, acc) ==
    IF stints = <<>> THEN [raised |-> FALSE, stints |-> acc]
    ELSE StintsAnalysisStep(impl, stints, laps, acc, StintOutcome(impl, stints[1], laps))

\* the single-stint branch of _analyze_from_laps_only
SingleStintResult(impl, session_key, driver_number, driver_name, laps) ==
    LET all_valid_times == ValidTimes(laps)
        kept        == {i \in 1..Len(laps) : Truthy(Get(laps[i], "lap_duration"))}
        Nth(k)      == CHOOSE i \in kept : Cardinality({j \in kept : j <= i}) = k
        lap_numbers == [k \in 1..Cardinality(kept) |->
                            GetDefault(laps[Nth(k)], "lap_number", Num(Nth(k)))]
    IN  IF MinMaxRaises(lap_numbers) THEN [raise |-> "TypeError"]
        ELSE [driver_name   |-> driver_name,
              driver_number |-> driver_number,
              session_key   |-> session_key,
              stints |-> <<[compound   |-> "Desconocido",
                            start_lap  |-> IF lap_numbers # <<>>
                                           THEN PyMin(lap_numbers) ELSE Num(1),
                            end_lap    |-> IF lap_numbers # <<>>
                                           THEN PyMax(lap_numbers) ELSE Num(Len(laps)),
                            laps_count |-> Len(all_valid_times),
                            avg_lap_time        |-> RoundedMean(all_valid_times),
                            degradation_per_lap |-> RoundedDegradation(impl, all_valid_times),
                            total_time          |-> RoundedSum(impl, all_valid_times)]>>,
              total_pit_stops        |-> 0,
              strategy_effectiveness |-> "Analisis basico - sin datos de stints",
              note |-> "Datos limitados: analisis basado solo en tiempos de vuelta"]

\* DetectedStint labelling the group with its 0-based position
DetectedStintZeroBased(impl, i, stint_laps) ==
    LET valid_times == ValidTimes(stint_laps)
        numbered    == SelectSeq(stint_laps, LAMBDA lap : Truthy(Get(lap, "lap_number")))
        lap_numbers == [k \in 1..Len(numbered) |-> numbered[k]["lap_number"]]
    IN  [compound   |-> "Stint " \o ToString(i),
         start_lap  |-> IF lap_numbers # <<>> THEN PyMin(lap_numbers) ELSE Num(1),
         end_lap    |-> IF lap_numbers # <<>>
                        THEN PyMax(lap_numbers) ELSE Num(Len(stint_laps)),
         laps_count |-> Len(valid_times),
         avg_lap_time        |-> RoundedMean(valid_times),
         degradation_per_lap |-> RoundedDegradation(impl, valid_times),
         total_time          |-> RoundedSum(impl, valid_times)]

\* one detected group of _analyze_from_laps_only, i its 0-based position
DetectedStint(impl, i, stint_laps) ==
    LET valid_times == ValidTimes(stint_laps)
        numbered    == SelectSeq(stint_laps, LAMBDA lap : Truthy(Get(lap, "lap_number")))
        lap_numbers == [k \in 1..Len(numbered) |-> numbered[k]["lap_number"]]
    IN  [compound   |-> "Stint " \o ToString(i + 1),
         start_lap  |-> IF lap_numbers # <<>> THEN PyMin(lap_numbers) ELSE Num(1),
         end_lap    |-> IF lap_numbers # <<>>
                        THEN PyMax(lap_numbers) ELSE Num(Len(stint_laps)),
         laps_count |-> Len(valid_times),
         avg_lap_time        |-> RoundedMean(valid_times),
         degradation_per_lap |-> RoundedDegradation(impl, valid_times),
         total_time          |-> RoundedSum(impl, valid_times)]

\* DetectedStints with its test inverted
RECURSIVE DetectedStintsInverted(_, _, _, _)
DetectedStintsInverted(impl, stints, i, acc) ==
    IF i > Len(stints) THEN acc
    ELSE DetectedStintsInverted(impl, stints, i + 1,
                                IF ValidTimes(stints[i]) = <<>>
                                THEN Append(acc, DetectedStint(impl, i - 1, stints[i]))
                                ELSE acc)

\* the loop over the detected groups: groups without valid times add nothing
RECURSIVE DetectedStints(_, _, _, _)
DetectedStints(impl, stints, i, acc) ==
    IF i > Len(stints) THEN acc
    ELSE DetectedStints(impl, stints, i + 1,
                        IF ValidTimes(stints[i]) # <<>>
                        THEN Append(acc, DetectedStint(impl, i - 1, stints[i]))
                        ELSE acc)

\* the dict returned by _analyze_from_laps_only for several detected stints
EstimatedResult(session_key, driver_number, driver_name, stint_results) ==
    [driver_name   |-> driver_name,
     driver_number |-> driver_number,
     session_key   |-> session_key,
     stints        |-> stint_results,
     total_pit_stops |-> PitStops(Len(stint_results)),
     strategy_effectiveness |->
         "Analisis estimado - stints detectados por cambios de tiempo",
     note |-> "Stints estimados basados en patrones de tiempos de vuelta"]

\* _analyze_from_laps_only after the detection of the stints
FromDetectedStints(impl, session_key, driver_number, driver_name, laps, stints) ==
    IF Len(stints) <= 1
    THEN SingleStintResult(impl, session_key, driver_number, driver_name, laps)
    ELSE EstimatedResult(session_key, driver_number, driver_name,
                         DetectedStints(impl, stints, 1, <<>>))

\* The dict returned, or [raise |-> ...] when an exception leaves the function
_analyze_from_laps_only(impl, session_key, driver_number, driver_name, laps) ==
    IF ValidTimes(laps) = <<>>
    THEN [error |-> [message |-> "No se encontraron tiempos de vuelta validos"]]
    ELSE FromDetectedStints(impl, session_key, driver_number, driver_name, laps,
                            _detect_stints_from_lap_times(laps))

\* an exception caught by the except clause of analyze_tire_strategy
StrategyError(cause) ==
    [error |-> [message |-> "Error analizando estrategia", cause |-> cause]]

\* InitialValidation with the two checks in the other order
InitialValidationLapsFirst(session_key, driver_number, laps, drivers) ==
    IF laps = <<>>
    THEN [error |-> [message |-> "No se encontraron datos de vueltas",
                     driver_number |-> driver_number, session_key |-> session_key]]
    ELSE IF drivers = <<>>
    THEN [error |-> [message |-> "No se encontro informacion del piloto",
                     driver_number |-> driver_number, session_key |-> session_key]]
    ELSE None

\* "Validaciones iniciales" of analyze_tire_strategy: the error dict
\* returned, or None when both checks pass
InitialValidation(session_key, driver_number, laps, drivers) ==
    IF drivers = <<>>
    THEN [error |-> [message |-> "No se encontro informacion del piloto",
                     driver_number |-> driver_number, session_key |-> session_key]]
    ELSE IF laps = <<>>
    THEN [error |-> [message |-> "No se encontraron datos de vueltas",
                     driver_number |-> driver_number, session_key |-> session_key]]
    ELSE None

\* f"{driver_info.get('first_name', 'Unknown')} {driver_info.get('last_name', 'Driver')}"
DriverName(driver_info) ==
    <<GetDefault(driver_info, "first_name", "Unknown"),
      GetDefault(driver_info, "last_name", "Driver")>>

\* "return await self._analyze_from_laps_only(...)" inside the try block
LapsOnlyOutcome(from_laps) ==
    IF "raise" \in DOMAIN from_laps
    THEN StrategyError([type |-> from_laps["raise"]])
    ELSE from_laps

\* analyze_tire_strategy after the loop over stints_data
FromStintsAnalysis(impl, session_key, driver_number, driver_name, laps, analysis) ==
    IF analysis.raised THEN StrategyError([type |-> "TypeError"])
    ELSE IF analysis.stints = <<>>
    THEN LapsOnlyOutcome(_analyze_from_laps_only(impl, session_key, driver_number,
                                                 driver_name, laps))
    ELSE [driver_name   |-> driver_name,
          driver_number |-> driver_number,
          session_key   |-> session_key,
          stints        |-> analysis.stints,
          total_pit_stops |-> PitStops(Len(analysis.stints)),
          strategy_effectiveness |-> "Analisis completado"]

\* analyze_tire_strategy after "Validaciones iniciales"
AnalyzeValidated(impl, session_key, driver_number, driver_name, stints, laps) ==
    IF stints = <<>>
    THEN LapsOnlyOutcome(_analyze_from_laps_only(impl, session_key, driver_number,
                                                 driver_name, laps))
    ELSE FromStintsAnalysis(impl, session_key, driver_number, driver_name, laps,
                            StintsAnalysis(impl, stints, laps, <<>>))

\* analyze_tire_strategy from its "Validaciones iniciales" on, the three
\* fetches done
AnalyzeFetched(impl, session_key, driver_number, stints, laps, drivers) ==
    IF InitialValidation(session_key, driver_number, laps, drivers) # None
    THEN InitialValidation(session_key, driver_number, laps, drivers)
    ELSE AnalyzeValidated(impl, session_key, driver_number, DriverName(drivers[1]),
                          stints, laps)

-----------------------------------------------------------------------------
(* Remote data fetcher *)

\* params = {"session_key": ..., "driver_number": ...}, in insertion order
StrategyParams(a) ==
    <<<<"session_key", a.session_key>>, <<"driver_number", a.driver_number>>>>

\* f"{endpoint}_{str(params)}": the endpoint and the text of the dict, which
\* lists the items in insertion order
CacheKey(endpoint, params) == <<endpoint, params>>

\* Memoize keeping an iterator the first reader exhausts: later readers of the
\* cache find nothing
MemoizeExhausted(c, key, data) ==
    [k \in DOMAIN c \cup {key} |-> IF k = key THEN <<>> ELSE c[k]]

\* self.cache[cache_key] = data
Memoize(c, key, data) ==
    [k \in DOMAIN c \cup {key} |-> IF k = key THEN data ELSE c[k]]

\* one more request sent for the key
CountRequest(r, key) ==
    [k \in DOMAIN r \cup {key} |-> IF k \in DOMAIN r /\ k # key THEN r[k]
                                   ELSE IF k \in DOMAIN r THEN r[k] + 1 ELSE 1]

\* FetchError with a message that leaves the endpoint out
FetchErrorAnonymous(endpoint, response) ==
    [message |-> "Error obteniendo datos",
     cause   |-> IF "status" \in DOMAIN response
                 THEN [message |-> "Error API", status |-> response.status]
                 ELSE [message |-> response.exception]]

\* the exception raised by get_data when the request to the endpoint fails
FetchError(endpoint, response) ==
    [message  |-> "Error obteniendo datos de",
     endpoint |-> endpoint,
     cause    |-> IF "status" \in DOMAIN response
                  THEN [message |-> "Error API", status |-> response.status]
                  ELSE [message |-> response.exception]]

\* what session.get may produce: status 200 with a JSON body, another
\* status, or a transport exception
Responses(bodies) ==
    {[status |-> 200, json |-> b] : b \in bodies}
        \cup {[status |-> 500], [exception |-> "ClientError"]}

\* get_data answering a failed request with an empty list instead of raising
get_data_swallowing(c, r, endpoint, params, response) ==
    LET cache_key == CacheKey(endpoint, params)
    IN  IF cache_key \in DOMAIN c
        THEN [cache |-> c, requests |-> r, raised |-> FALSE, data |-> c[cache_key]]
        ELSE IF "status" \in DOMAIN response /\ response.status = 200
        THEN [cache    |-> Memoize(c, cache_key, response.json),
              requests |-> CountRequest(r, cache_key),
              raised   |-> FALSE,
              data     |-> response.json]
        ELSE [cache    |-> c,
              requests |-> CountRequest(r, cache_key),
              raised   |-> FALSE,
              data     |-> <<>>]

\* get_data run from its first line to its return or raise, by a caller with
\* no other coroutine of the analyzer in between: the new cache and request
\* counts and the data returned, or the exception raised. The response is
\* what the service answers if asked.
get_data(c, r, endpoint, params, response) ==
    LET cache_key == CacheKey(endpoint, params)
    IN  IF cache_key \in DOMAIN c
        THEN [cache |-> c, requests |-> r, raised |-> FALSE, data |-> c[cache_key]]
        ELSE IF "status" \in DOMAIN response /\ response.status = 200
        THEN [cache    |-> Memoize(c, cache_key, response.json),
              requests |-> CountRequest(r, cache_key),
              raised   |-> FALSE,
              data     |-> response.json]
        ELSE [cache    |-> c,
              requests |-> CountRequest(r, cache_key),
              raised   |-> TRUE,
              exception |-> FetchError(endpoint, response)]

-----------------------------------------------------------------------------
(* Data the timing service may return *)

\* all sequences over S of length at most n
SeqsUpTo(S, n) == UNION {[1..k -> S] : k \in 0..n}

\* laps of the menu: three valid laps in stint 1 whose durations differ by 4
\* and by exactly 3 seconds, a valid lap with a null lap_number, a lap without
\* duration, a lap with a negative duration, and a lap that carries neither
\* lap_number nor stint_number
LapRecords ==
    {[lap_number |-> Num(1), lap_duration |-> Num(9), stint_number |-> Num(1)],
     [lap_number |-> Num(2), lap_duration |-> Num(5), stint_number |-> Num(1)],
     [lap_number |-> Num(3), lap_duration |-> Num(2), stint_number |-> Num(1)],
     [lap_number |-> None, lap_duration |-> Num(5), stint_number |-> Num(1)],
     [lap_number |-> Num(2), lap_duration |-> None, stint_number |-> Num(1)],
     [lap_number |-> Num(3), lap_duration |-> Num(0 - 1), stint_number |-> None],
     [lap_duration |-> Num(5)]}

\* stint descriptors of the menu: one matched by stint_number, with a null
\* lap_start and no lap_end; one matched by lap range only; one matched by
\* stint_number, with an inverted range and no compound; one without
\* stint_number, for the first lap only
StintRecords ==
    {[stint_number |-> Num(1), compound |-> "SOFT", lap_start |-> None],
     [stint_number |-> Num(2), compound |-> "HARD",
      lap_start |-> Num(2), lap_end |-> Num(3)],
     [stint_number |-> Num(1), lap_start |-> Num(2), lap_end |-> Num(1)],
     [compound |-> "MEDIUM", lap_start |-> Num(1), lap_end |-> Num(1)]}

DriverRecords ==
    {[driver_number |-> 44, first_name |-> "Lewis"]}

\* the sequences of SeqsUpTo(S, n) that hold no record twice
DistinctSeqsUpTo(S, n) ==
    {s \in SeqsUpTo(S, n) : \A i \in DOMAIN s : \A j \in DOMAIN s : i # j => s[i] # s[j]}

\* the service returns each lap and each descriptor once, in any order
LapLists == DistinctSeqsUpTo(LapRecords, MaxLaps)

StintLists == DistinctSeqsUpTo(StintRecords, MaxStints)

DriverLists == {<<>>} \cup {<<d>> : d \in DriverRecords}

StrategyArgs == {[session_key |-> 9158, driver_number |-> 44]}

-----------------------------------------------------------------------------
(* One analyze_tire_strategy call on a fresh analyzer *)

NoResult == None

\* handle_call_tool enters "async with F1DataAnalyzer()", which creates the
\* analyzer and opens its session, and calls analyze_tire_strategy
Start ==
    /\ pc = "idle"
    /\ \E a \in StrategyArgs : args' = a
    /\ pc' = "stints"
    /\ cache' = <<>>
    /\ requests' = <<>>
    /\ result' = NoResult
    /\ session' = "open"
    /\ name' = "analyze_tire_strategy"
    /\ UNCHANGED <<stints_data, laps_data, calls, lap_times, degradation>>
    /\ UNCHANGED <<conversation_history, state>>

\* await self.get_data("stints", ...)
FetchStints ==
    /\ pc = "stints"
    /\ \E response \in Responses(StintLists) :
         LET got == get_data(cache, requests, "stints", StrategyParams(args), response)
         IN  /\ cache' = got.cache
             /\ requests' = got.requests
             /\ IF got.raised
                THEN /\ result' = StrategyError(got.exception)
                     /\ pc' = "done"
                     /\ UNCHANGED stints_data
                ELSE /\ stints_data' = got.data
                     /\ pc' = "laps"
                     /\ UNCHANGED result
    /\ UNCHANGED <<args, laps_data, calls, lap_times, degradation>>
    /\ UNCHANGED <<session, name, conversation_history, state>>

\* FetchLaps asking again after a failed request
FetchLapsRetrying ==
    /\ pc = "laps"
    /\ \E response \in Responses(LapLists) :
         LET got == get_data(cache, requests, "laps", StrategyParams(args), response)
         IN  /\ cache' = got.cache
             /\ requests' = got.requests
             /\ IF got.raised
                THEN /\ pc' = "laps"
                     /\ UNCHANGED <<result, stints_data, laps_data>>
                ELSE /\ laps_data' = got.data
                     /\ pc' = "drivers"
                     /\ UNCHANGED <<result, stints_data>>
    /\ UNCHANGED <<args, calls, lap_times, degradation>>
    /\ UNCHANGED <<session, name, conversation_history, state>>

\* await self.get_data("laps", ...)
FetchLaps ==
    /\ pc = "laps"
    /\ \E response \in Responses(LapLists) :
         LET got == get_data(cache, requests, "laps", StrategyParams(args), response)
         IN  /\ cache' = got.cache
             /\ requests' = got.requests
             /\ IF got.raised
                THEN /\ result' = StrategyError(got.exception)
                     /\ pc' = "done"
                     /\ stints_data' = <<>>
                     /\ UNCHANGED laps_data
                ELSE /\ laps_data' = got.data
                     /\ pc' = "drivers"
                     /\ UNCHANGED <<result, stints_data>>
    /\ UNCHANGED <<args, calls, lap_times, degradation>>
    /\ UNCHANGED <<session, name, conversation_history, state>>

\* await self.get_data("drivers", ...) and the rest of analyze_tire_strategy,
\* which has no further suspension point
FetchDriversAndAnalyze ==
    /\ pc = "drivers"
    /\ \E response \in Responses(DriverLists), impl \in SumImpls :
         LET got == get_data(cache, requests, "drivers", StrategyParams(args), response)
         IN  /\ cache' = got.cache
             /\ requests' = got.requests
             /\ result' = IF got.raised
                          THEN StrategyError(got.exception)
                          ELSE AnalyzeFetched(impl, args.session_key, args.driver_number,
                                              stints_data, laps_data, got.data)
    /\ pc' = "done"
    /\ stints_data' = <<>>
    /\ laps_data' = <<>>
    /\ UNCHANGED <<args, calls, lap_times, degradation>>
    /\ UNCHANGED <<session, name, conversation_history, state>>

\* the session is closed, the result is handed to the client and the
\* analyzer is discarded
Return ==
    /\ pc = "done"
    /\ pc' = "idle"
    /\ cache' = <<>>
    /\ requests' = <<>>
    /\ result' = NoResult
    /\ session' = "closed"
    /\ UNCHANGED <<args, stints_data, laps_data, calls, lap_times, degradation, name>>
    /\ UNCHANGED <<conversation_history, state>>

Init ==
    /\ pc = "idle"
    /\ args \in StrategyArgs
    /\ cache = <<>>
    /\ requests = <<>>
    /\ stints_data = <<>>
    /\ laps_data = <<>>
    /\ result = NoResult
    /\ calls = <<>>
    /\ lap_times = <<>>
    /\ degradation = None
    /\ session = NoSession
    /\ name = "analyze_tire_strategy"
    /\ conversation_history = <<>>
    /\ state = NewAdvisorState

Next ==
    \/ Start
    \/ FetchStints
    \/ FetchLaps
    \/ FetchDriversAndAnalyze
    \/ Return

Spec == Init /\ [][Next]_vars

-----------------------------------------------------------------------------
(* _calculate_degradation on its own *)

\* lap times of the menu: small ones, whose sums are exact, and three
\* consecutive large ones, whose sums are rounded
TimeValues == {2, 5, 9, 88, 89, 90}

InitDegradation ==
    /\ pc = "estimate"
    /\ lap_times \in SeqsUpTo(TimeValues, MaxTimes)
    /\ degradation = None
    /\ args \in StrategyArgs
    /\ cache = <<>>
    /\ requests = <<>>
    /\ stints_data = <<>>
    /\ laps_data = <<>>
    /\ result = NoResult
    /\ calls = <<>>
    /\ session = NoSession
    /\ name = "analyze_tire_strategy"
    /\ conversation_history = <<>>
    /\ state = NewAdvisorState

CalculateDegradation ==
    /\ pc = "estimate"
    /\ \E impl \in SumImpls : degradation' = _calculate_degradation(impl, lap_times)
    /\ pc' = "estimated"
    /\ UNCHANGED <<args, cache, requests, stints_data, laps_data, result, calls, lap_times>>
    /\ UNCHANGED <<session, name, conversation_history, state>>

NextDegradation == CalculateDegradation

SpecDegradation == InitDegradation /\ [][NextDegradation]_vars

-----------------------------------------------------------------------------
(* get_data called by coroutines that share one analyzer *)

Callers == {"a", "b"}

Endpoints == {"laps", "drivers"}

\* two dicts that are equal but were built in different orders
ParamsValues ==
    {<<<<"session_key", 9158>>, <<"driver_number", 44>>>>,
     <<<<"driver_number", 44>>, <<"session_key", 9158>>>>}

Bodies == {<<>>, <<[driver_number |-> 44]>>}

RequestsSent(r) ==
    LET RECURSIVE Total(_)
        Total(K) == IF K = {} THEN 0
                    ELSE LET k == CHOOSE x \in K : TRUE IN r[k] + Total(K \ {k})
    IN  Total(DOMAIN r)

InitFetcher ==
    /\ pc = "fetching"
    /\ calls = [c \in Callers |-> [state |-> "idle"]]
    /\ cache = <<>>
    /\ requests = <<>>
    /\ args \in StrategyArgs
    /\ stints_data = <<>>
    /\ laps_data = <<>>
    /\ result = NoResult
    /\ lap_times = <<>>
    /\ degradation = None
    /\ session = "open"
    /\ name = "analyze_tire_strategy"
    /\ conversation_history = <<>>
    /\ state = NewAdvisorState

\* get_data up to its return from the cache
GetDataCached(c, endpoint, params) ==
    LET cache_key == CacheKey(endpoint, params)
    IN  /\ calls[c].state # "waiting"
        /\ cache_key \in DOMAIN cache
        /\ calls' = [calls EXCEPT ![c] = [state |-> "returned", key |-> cache_key,
                                          requested |-> FALSE, data |-> cache[cache_key]]]
        /\ UNCHANGED <<cache, requests>>
        /\ UNCHANGED <<pc, args, stints_data, laps_data, result, lap_times, degradation>>
        /\ UNCHANGED <<session, name, conversation_history, state>>

\* GetDataRequest without the cache lookup
GetDataRequestUnchecked(c, endpoint, params) ==
    LET cache_key == CacheKey(endpoint, params)
    IN  /\ calls[c].state # "waiting"
        /\ RequestsSent(requests) < MaxRequests
        /\ requests' = CountRequest(requests, cache_key)
        /\ calls' = [calls EXCEPT ![c] = [state |-> "waiting", key |-> cache_key]]
        /\ UNCHANGED cache
        /\ UNCHANGED <<pc, args, stints_data, laps_data, result, lap_times, degradation>>
        /\ UNCHANGED <<session, name, conversation_history, state>>

\* get_data up to its suspension in session.get
GetDataRequest(c, endpoint, params) ==
    LET cache_key == CacheKey(endpoint, params)
    IN  /\ calls[c].state # "waiting"
        /\ cache_key \notin DOMAIN cache
        /\ RequestsSent(requests) < MaxRequests
        /\ requests' = CountRequest(requests, cache_key)
        /\ calls' = [calls EXCEPT ![c] = [state |-> "waiting", key |-> cache_key]]
        /\ UNCHANGED cache
        /\ UNCHANGED <<pc, args, stints_data, laps_data, result, lap_times, degradation>>
        /\ UNCHANGED <<session, name, conversation_history, state>>

\* GetDataResponse memoizing an empty list when the request fails
GetDataResponseCachingFailure(c, response) ==
    /\ calls[c].state = "waiting"
    /\ IF "status" \in DOMAIN response /\ response.status = 200
       THEN /\ cache' = Memoize(cache, calls[c].key, response.json)
            /\ calls' = [calls EXCEPT ![c] = [state |-> "returned", key |-> calls[c].key,
                                              requested |-> TRUE, data |-> response.json]]
       ELSE /\ calls' = [calls EXCEPT ![c] =
                           [state |-> "raised", key |-> calls[c].key,
                            exception |-> FetchError(calls[c].key[1], response)]]
            /\ cache' = Memoize(cache, calls[c].key, <<>>)
    /\ UNCHANGED requests
    /\ UNCHANGED <<pc, args, stints_data, laps_data, result, lap_times, degradation>>
    /\ UNCHANGED <<session, name, conversation_history, state>>

\* get_data from the arrival of the response to its return or raise
GetDataResponse(c, response) ==
    /\ calls[c].state = "waiting"
    /\ IF "status" \in DOMAIN response /\ response.status = 200
       THEN /\ cache' = Memoize(cache, calls[c].key, response.json)
            /\ calls' = [calls EXCEPT ![c] = [state |-> "returned", key |-> calls[c].key,
                                              requested |-> TRUE, data |-> response.json]]
       ELSE /\ calls' = [calls EXCEPT ![c] =
                           [state |-> "raised", key |-> calls[c].key,
                            exception |-> FetchError(calls[c].key[1], response)]]
            /\ UNCHANGED cache
    /\ UNCHANGED requests
    /\ UNCHANGED <<pc, args, stints_data, laps_data, result, lap_times, degradation>>
    /\ UNCHANGED <<session, name, conversation_history, state>>

NextFetcher ==
    \/ \E c \in Callers, e \in Endpoints, p \in ParamsValues : GetDataCached(c, e, p)
    \/ \E c \in Callers, e \in Endpoints, p \in ParamsValues : GetDataRequest(c, e, p)
    \/ \E c \in Callers, response \in Responses(Bodies) : GetDataResponse(c, response)

SpecFetcher == InitFetcher /\ [][NextFetcher]_vars

-----------------------------------------------------------------------------
(* analyze_tire_strategy called again over the same datasets *)

MaxCalls == 2

\* the service answers with status 200 and the dataset it holds
Ok(body) == [status |-> 200, json |-> body]

\* the datasets the timing service holds for the session and the driver:
\* laps with all their fields, one of them with a null lap_number, and the
\* descriptors matched by stint number and by lap range
Services ==
    {[stints |-> s, laps |-> l, drivers |-> d] :
        s \in DistinctSeqsUpTo({r \in StintRecords : "compound" \in DOMAIN r
                                                     /\ "stint_number" \in DOMAIN r},
                               MaxStints),
        l \in DistinctSeqsUpTo({r \in LapRecords : /\ DOMAIN r = {"lap_number", "lap_duration",
                                                                 "stint_number"}
                                                  /\ ValidLap(r)},
                               MaxLaps),
        d \in DriverLists}

\* analyze_tire_strategy after its third fetch: the analyzer's cache and
\* request counts, and the dict returned
AnalysisAfterDrivers(impl, a, stints, laps, got) ==
    [cache    |-> got.cache,
     requests |-> got.requests,
     result   |-> AnalyzeFetched(impl, a.session_key, a.driver_number,
                                 stints, laps, got.data)]

\* analyze_tire_strategy after its second fetch
AnalysisAfterLaps(impl, a, service, stints, got) ==
    AnalysisAfterDrivers(impl, a, stints, got.data,
                         get_data(got.cache, got.requests, "drivers",
                                  StrategyParams(a), Ok(service.drivers)))

\* analyze_tire_strategy after its first fetch
AnalysisAfterStints(impl, a, service, got) ==
    AnalysisAfterLaps(impl, a, service, got.data,
                      get_data(got.cache, got.requests, "laps",
                               StrategyParams(a), Ok(service.laps)))

\* One whole call of analyze_tire_strategy on an analyzer whose cache is c,
\* every request answered by the service
analyze_tire_strategy(c, r, impl, a, service) ==
    AnalysisAfterStints(impl, a, service,
                        get_data(c, r, "stints", StrategyParams(a), Ok(service.stints)))

\* the call returns: the analyzer keeps its cache, the caller the result
CallReturns(run, impl, service, instance) ==
    /\ cache' = run.cache
    /\ requests' = run.requests
    /\ result' = run.result
    /\ calls' = Append(calls, [sum_impl |-> impl, service |-> service,
                                instance |-> instance, result |-> run.result])

InitRepeat ==
    /\ pc = "idle"
    /\ args \in StrategyArgs
    /\ cache = <<>>
    /\ requests = <<>>
    /\ stints_data = <<>>
    /\ laps_data = <<>>
    /\ result = NoResult
    /\ calls = <<>>
    /\ lap_times = <<>>
    /\ degradation = None
    /\ session = "open"
    /\ name = "analyze_tire_strategy"
    /\ conversation_history = <<>>
    /\ state = NewAdvisorState

\* the first call, on a new analyzer; the interpreter sums one way or the other
FirstCall ==
    /\ pc = "idle"
    /\ calls = <<>>
    /\ \E service \in Services, impl \in SumImpls :
         CallReturns(analyze_tire_strategy(<<>>, <<>>, impl, args, service),
                     impl, service, "new")
    /\ UNCHANGED <<pc, args, stints_data, laps_data, lap_times, degradation>>
    /\ UNCHANGED <<session, name, conversation_history, state>>

\* another call with the same arguments on the analyzer of the call before,
\* in the same process and with the service unchanged
CallOnSameInstance ==
    /\ pc = "idle"
    /\ calls # <<>>
    /\ Len(calls) < MaxCalls
    /\ CallReturns(analyze_tire_strategy(cache, requests, calls[1].sum_impl, args,
                                         calls[1].service),
                   calls[1].sum_impl, calls[1].service, "same")
    /\ UNCHANGED <<pc, args, stints_data, laps_data, lap_times, degradation>>
    /\ UNCHANGED <<session, name, conversation_history, state>>

\* another call with the same arguments on a new analyzer
CallOnNewInstance ==
    /\ pc = "idle"
    /\ calls # <<>>
    /\ Len(calls) < MaxCalls
    /\ CallReturns(analyze_tire_strategy(<<>>, <<>>, calls[1].sum_impl, args,
                                         calls[1].service),
                   calls[1].sum_impl, calls[1].service, "new")
    /\ UNCHANGED <<pc, args, stints_data, laps_data, lap_times, degradation>>
    /\ UNCHANGED <<session, name, conversation_history, state>>

NextRepeat ==
    \/ FirstCall
    \/ CallOnSameInstance
    \/ CallOnNewInstance

SpecRepeat == InitRepeat /\ [][NextRepeat]_vars

-----------------------------------------------------------------------------
(* _get_stint_laps on its own *)

\* descriptors given to _get_stint_laps: those of the menu, one whose stint
\* number and lap range select different laps, and one that carries the
\* "session_stints" list Method 3 looks for
ResolverStints ==
    StintRecords \cup
        {[stint_number |-> Num(1), compound |-> "SOFT",
          lap_start |-> Num(3), lap_end |-> Num(3)],
         [stint_number |-> Num(2), compound |-> "HARD",
          lap_start |-> Num(2), lap_end |-> Num(2),
          session_stints |-> <<[stint_number |-> Num(1)], [stint_number |-> Num(2)]>>]}

InitResolver ==
    /\ pc = "resolve"
    /\ stints_data \in {<<s>> : s \in ResolverStints}
    /\ laps_data \in LapLists
    /\ result = NoResult
    /\ args \in StrategyArgs
    /\ cache = <<>>
    /\ requests = <<>>
    /\ calls = <<>>
    /\ lap_times = <<>>
    /\ degradation = None
    /\ session = NoSession
    /\ name = "analyze_tire_strategy"
    /\ conversation_history = <<>>
    /\ state = NewAdvisorState

\* stint_laps = self._get_stint_laps(stint, laps_data)
ResolveStintLaps ==
    /\ pc = "resolve"
    /\ result' = [stint_laps |-> _get_stint_laps(stints_data[1], laps_data)]
    /\ pc' = "resolved"
    /\ UNCHANGED <<args, cache, requests, stints_data, laps_data, calls, lap_times,
                   degradation>>
    /\ UNCHANGED <<session, name, conversation_history, state>>

NextResolver == ResolveStintLaps

SpecResolver == InitResolver /\ [][NextResolver]_vars

-----------------------------------------------------------------------------
(* _analyze_from_laps_only on its own *)

\* laps given to _analyze_from_laps_only: three valid laps, each more than
\* 3 seconds faster than the one before, a valid lap with a null lap_number,
\* a lap with a negative duration and the highest lap number, and a lap
\* without duration
FallbackLapRecords ==
    {[lap_number |-> Num(1), lap_duration |-> Num(9)],
     [lap_number |-> Num(2), lap_duration |-> Num(5)],
     [lap_number |-> Num(3), lap_duration |-> Num(1)],
     [lap_number |-> None, lap_duration |-> Num(5)],
     [lap_number |-> Num(7), lap_duration |-> Num(0 - 1)],
     [lap_number |-> Num(4), lap_duration |-> None]}

FallbackLapLists == DistinctSeqsUpTo(FallbackLapRecords, MaxLaps)

InitLapsOnly ==
    /\ pc = "fallback"
    /\ laps_data \in FallbackLapLists
    /\ result = NoResult
    /\ args \in StrategyArgs
    /\ cache = <<>>
    /\ requests = <<>>
    /\ stints_data = <<>>
    /\ calls = <<>>
    /\ lap_times = <<>>
    /\ degradation = None
    /\ session = NoSession
    /\ name = "analyze_tire_strategy"
    /\ conversation_history = <<>>
    /\ state = NewAdvisorState

\* return await self._analyze_from_laps_only(session_key, driver_number,
\* driver_name, laps_data): the dict returned, or the exception raised
AnalyzeFromLapsOnly ==
    /\ pc = "fallback"
    /\ \E impl \in SumImpls :
         result' = _analyze_from_laps_only(impl, args.session_key, args.driver_number,
                                           <<"Lewis", "Driver">>, laps_data)
    /\ pc' = "fell_back"
    /\ UNCHANGED <<args, cache, requests, stints_data, laps_data, calls, lap_times,
                   degradation>>
    /\ UNCHANGED <<session, name, conversation_history, state>>

NextLapsOnly == AnalyzeFromLapsOnly

SpecLapsOnly == InitLapsOnly /\ [][NextLapsOnly]_vars

-----------------------------------------------------------------------------
(* The driver and session listings of F1DataAnalyzer *)

\* a Python str: the 1-tuple of its characters, so that "" is not None
Text(chars) == <<chars>>

\* str.lower() over the letters the menu uses
LowerChar(ch) ==
    CASE ch = "B" -> "b"
      [] ch = "M" -> "m"
      [] ch = "S" -> "s"
      [] OTHER -> ch

Lower(text) == Text([i \in 1..Len(text[1]) |-> LowerChar(text[1][i])])

\* a in b, for two str
Contains(a, b) ==
    \E i \in 0..(Len(b[1]) - Len(a[1])) : SubSeq(b[1], i + 1, i + Len(a[1])) = a[1]

\* x.get("driver_number", 0), the key sorted() orders the drivers by
SortKey(driver) == GetDefault(driver, "driver_number", Num(0))

\* sorted() raises TypeError as soon as it compares None with anything
SortRaises(drivers) ==
    Len(drivers) >= 2 /\ \E i \in 1..Len(drivers) : SortKey(drivers[i]) = None

\* the driver put after the last one of the sorted list whose key is not above
InsertByNumber(sorted, driver) ==
    LET before == Cardinality({i \in 1..Len(sorted) :
                                  SortKey(sorted[i])[1] <= SortKey(driver)[1]})
    IN  SubSeq(sorted, 1, before) \o <<driver>> \o SubSeq(sorted, before + 1, Len(sorted))

\* sorted(drivers, key=...): stable, ascending
RECURSIVE SortedDrivers(_, _)
SortedDrivers(drivers, acc) ==
    IF drivers = <<>> THEN acc
    ELSE SortedDrivers(Tail(drivers), InsertByNumber(acc, drivers[1]))

\* f"{first_name} {last_name}".strip(), kept as the list of its words
StrippedName(driver) ==
    SelectSeq(<<GetDefault(driver, "first_name", ""), GetDefault(driver, "last_name", "")>>,
              LAMBDA word : word # "")

\* one entry of drivers_info
DriverEntry(driver) ==
    [number  |-> GetDefault(driver, "driver_number", "N/A"),
     name    |-> StrippedName(driver),
     team    |-> GetDefault(driver, "team_name", "N/A"),
     acronym |-> GetDefault(driver, "name_acronym", "N/A")]

DriverEntries(sorted) == [i \in 1..Len(sorted) |-> DriverEntry(sorted[i])]

\* get_driver_info after its fetch; got is what get_data returned or raised
get_driver_info(session_key, got) ==
    IF got.raised
    THEN [error |-> [message |-> "Error obteniendo pilotos", cause |-> got.exception]]
    ELSE IF got.data = <<>>
    THEN [error |-> [message |-> "No se encontraron pilotos en la sesion",
                     session_key |-> session_key]]
    ELSE IF SortRaises(got.data)
    THEN [error |-> [message |-> "Error obteniendo pilotos",
                     cause |-> [type |-> "TypeError"]]]
    ELSE [session_key   |-> session_key,
          drivers       |-> DriverEntries(SortedDrivers(got.data, <<>>)),
          total_drivers |-> Len(got.data)]

\* location.lower() in s.get("location", "").lower() raises AttributeError
\* for a session whose location is null
FilterRaises(sessions) ==
    \E i \in 1..Len(sessions) : GetDefault(sessions[i], "location", Text(<<>>)) = None

\* [s for s in sessions if location.lower() in s.get("location", "").lower()]
FilteredSessions(sessions, location) ==
    SelectSeq(sessions,
              LAMBDA s : Contains(Lower(location),
                                  Lower(GetDefault(s, "location", Text(<<>>)))))

\* set(s.get("location", "Unknown") for s in sessions); the error message
\* joins up to ten of them in the iteration order of the set
AvailableLocations(sessions) ==
    {GetDefault(sessions[i], "location", Text(<<"Unknown">>)) : i \in 1..Len(sessions)}

\* one entry of sessions_info
SessionEntry(s) ==
    [session_key  |-> Get(s, "session_key"),
     session_name |-> GetDefault(s, "session_name", "Unknown"),
     location     |-> GetDefault(s, "location", "Unknown"),
     country      |-> GetDefault(s, "country_name", "N/A"),
     date         |-> GetDefault(s, "date_start", "N/A")]

\* the dict get_session_info returns for the sessions it keeps
SessionsResult(year, location, sessions) ==
    [year            |-> year,
     location_filter |-> location,
     sessions        |-> [i \in 1..Len(sessions) |-> SessionEntry(sessions[i])],
     total_sessions  |-> Len(sessions)]

\* "if location:" is true for a str that is not empty
LocationGiven(location) == location # None /\ location[1] # <<>>

\* get_session_info after its fetch; got is what get_data returned or raised
get_session_info(year, location, got) ==
    IF got.raised
    THEN [error |-> [message |-> "Error obteniendo sesiones", cause |-> got.exception]]
    ELSE IF got.data = <<>>
    THEN [error |-> [message |-> "No se encontraron sesiones para el ano", year |-> year]]
    ELSE IF ~LocationGiven(location)
    THEN SessionsResult(year, location, got.data)
    ELSE IF FilterRaises(got.data)
    THEN [error |-> [message |-> "Error obteniendo sesiones",
                     cause |-> [type |-> "AttributeError"]]]
    ELSE IF FilteredSessions(got.data, location) = <<>>
    THEN [error |-> [message   |-> "No se encontraron sesiones para la ubicacion",
                     location  |-> location,
                     year      |-> year,
                     available |-> AvailableLocations(got.data)]]
    ELSE SessionsResult(year, location, FilteredSessions(got.data, location))

-----------------------------------------------------------------------------
(* handle_call_tool of the F1 server *)

\* longest list of drivers or of sessions the timing service returns
MaxListed == 2

ToolNames == {"analyze_tire_strategy", "get_driver_info", "get_session_info", "get_weather"}

\* the arguments dict of a call: complete for one tool or another, or short
\* of a required key
ToolArguments ==
    {[session_key |-> 9158, driver_number |-> 44],
     [session_key |-> 9158],
     [year |-> 2023],
     [year |-> 2023, location |-> Text(<<"m", "o", "n">>)],
     [year |-> 2023, location |-> Text(<<"B", "a", "k", "u">>)]}

\* drivers of a session: complete, without last name, with a null number
DriverInfoRecords ==
    {[driver_number |-> Num(44), first_name |-> "Lewis", last_name |-> "Hamilton",
      team_name |-> "Mercedes", name_acronym |-> "HAM"],
     [driver_number |-> Num(1), first_name |-> "Max"],
     [driver_number |-> None, last_name |-> "Reserve"]}

DriverInfoLists == DistinctSeqsUpTo(DriverInfoRecords, MaxListed)

\* sessions of a year: complete, with the location only, with a null location
SessionRecords ==
    {[session_key |-> Num(9158), session_name |-> "Race",
      location |-> Text(<<"M", "o", "n", "z", "a">>),
      country_name |-> "Italy", date_start |-> "2023-09-03"],
     [session_key |-> Num(9141), location |-> Text(<<"S", "p", "a">>)],
     [session_key |-> Num(9000), location |-> None]}

SessionLists == DistinctSeqsUpTo(SessionRecords, MaxListed)

\* a TextContent of type "text"; the text is kept as the values written in it
TextContent(text) == [type |-> "text", text |-> text]

\* f"{total_time:.1f}" of a time in thousandths, in tenths (the totals of the
\* menu are whole seconds, never halfway between two tenths)
Tenths(thousandths) == RoundRatio(thousandths, 100, 1)

\* the lines written for the stint at position i of result['stints']
StintLines(i, stint) ==
    [stint   |-> <<i, stint.compound>>,
     vueltas |-> <<stint.start_lap, stint.end_lap, stint.laps_count>>,
     tiempo_promedio    |-> stint.avg_lap_time,
     degradacion_vuelta |-> stint.degradation_per_lap,
     tiempo_total       |-> Tenths(stint.total_time)]

\* the text written for a result of analyze_tire_strategy; the note is
\* written when result.get('note') is set
StrategyText(r) ==
    [titulo  |-> "ANALISIS DE ESTRATEGIA DE NEUMATICOS",
     piloto  |-> <<r.driver_name, r.driver_number>>,
     sesion  |-> r.session_key,
     stints  |-> [i \in 1..Len(r.stints) |-> StintLines(i, r.stints[i])],
     paradas |-> r.total_pit_stops,
     nota    |-> IF "note" \in DOMAIN r THEN <<r.note>> ELSE <<>>]

DriversText(r) ==
    [titulo  |-> "PILOTOS EN LA SESION",
     sesion  |-> r.session_key,
     total   |-> r.total_drivers,
     pilotos |-> r.drivers]

SessionsText(r, year, location) ==
    [titulo   |-> "SESIONES",
     year     |-> year,
     filtro   |-> IF LocationGiven(location) THEN <<location>> ELSE <<>>,
     total    |-> r.total_sessions,
     sesiones |-> r.sessions]

\* the list handle_call_tool returns for the dict a tool produced
ToolOutput(tool, arguments, r) ==
    IF "error" \in DOMAIN r THEN <<TextContent(r.error)>>
    ELSE IF tool = "analyze_tire_strategy" THEN <<TextContent(StrategyText(r))>>
    ELSE IF tool = "get_driver_info" THEN <<TextContent(DriversText(r))>>
    ELSE <<TextContent(SessionsText(r, arguments.year, Get(arguments, "location")))>>

\* the keys the branch of the tool reads with arguments[...], in the order read
RequiredKeys(tool) ==
    CASE tool = "analyze_tire_strategy" -> <<"session_key", "driver_number">>
      [] tool = "get_driver_info" -> <<"session_key">>
      [] tool = "get_session_info" -> <<"year">>
      [] OTHER -> <<>>

MissingKeys(tool, arguments) ==
    SelectSeq(RequiredKeys(tool), LAMBDA k : k \notin DOMAIN arguments)

\* handle_call_tool is called; F1DataAnalyzer() builds an analyzer without
\* session and with an empty cache
CallTool ==
    /\ pc = "idle"
    /\ \E tool \in ToolNames, arguments \in ToolArguments :
         /\ name' = tool
         /\ args' = arguments
    /\ session' = NoSession
    /\ cache' = <<>>
    /\ requests' = <<>>
    /\ result' = NoResult
    /\ pc' = "enter"
    /\ UNCHANGED <<stints_data, laps_data, calls, lap_times, degradation>>
    /\ UNCHANGED <<conversation_history, state>>

\* __aenter__
EnterAnalyzer ==
    /\ pc = "enter"
    /\ session' = "open"
    /\ pc' = "dispatch"
    /\ UNCHANGED <<args, cache, requests, stints_data, laps_data, result, calls,
                   lap_times, degradation, name>>
    /\ UNCHANGED <<conversation_history, state>>

\* the if/elif chain on name, up to the call of the analyzer's method: the
\* unknown tool returns at once, a missing argument raises KeyError
Dispatch ==
    /\ pc = "dispatch"
    /\ IF name \notin {"analyze_tire_strategy", "get_driver_info", "get_session_info"}
       THEN /\ result' = [return |-> <<TextContent([message |-> "Herramienta no reconocida",
                                                    name |-> name])>>]
            /\ pc' = "exit"
       ELSE IF MissingKeys(name, args) # <<>>
       THEN /\ result' = [raise |-> [type |-> "KeyError",
                                     key |-> MissingKeys(name, args)[1]]]
            /\ pc' = "exit"
       ELSE /\ pc' = CASE name = "analyze_tire_strategy" -> "stints"
                       [] name = "get_driver_info" -> "driver_info"
                       [] name = "get_session_info" -> "session_info"
            /\ UNCHANGED result
    /\ UNCHANGED <<args, cache, requests, stints_data, laps_data, calls, lap_times,
                   degradation, session, name>>
    /\ UNCHANGED <<conversation_history, state>>

\* result = await analyzer.get_driver_info(arguments["session_key"])
GetDriverInfo ==
    /\ pc = "driver_info"
    /\ \E response \in Responses(DriverInfoLists) :
         LET got == get_data(cache, requests, "drivers",
                             <<<<"session_key", args.session_key>>>>, response)
         IN  /\ cache' = got.cache
             /\ requests' = got.requests
             /\ result' = get_driver_info(args.session_key, got)
    /\ pc' = "done"
    /\ UNCHANGED <<args, stints_data, laps_data, calls, lap_times, degradation,
                   session, name>>
    /\ UNCHANGED <<conversation_history, state>>

\* result = await analyzer.get_session_info(year, location)
GetSessionInfo ==
    /\ pc = "session_info"
    /\ \E response \in Responses(SessionLists) :
         LET got == get_data(cache, requests, "sessions", <<<<"year", args.year>>>>, response)
         IN  /\ cache' = got.cache
             /\ requests' = got.requests
             /\ result' = get_session_info(args.year, Get(args, "location"), got)
    /\ pc' = "done"
    /\ UNCHANGED <<args, stints_data, laps_data, calls, lap_times, degradation,
                   session, name>>
    /\ UNCHANGED <<conversation_history, state>>

\* the return statement of the branch: the error text or the formatted result
FormatResult ==
    /\ pc = "done"
    /\ result' = [return |-> ToolOutput(name, args, result)]
    /\ pc' = "exit"
    /\ UNCHANGED <<args, cache, requests, stints_data, laps_data, calls, lap_times,
                   degradation, session, name>>
    /\ UNCHANGED <<conversation_history, state>>

\* ExitAnalyzer leaving the session open when an exception is on its way
ExitAnalyzerUnlessRaising ==
    /\ pc = "exit"
    /\ session' = IF session # NoSession /\ "raise" \notin DOMAIN result
                  THEN "closed" ELSE session
    /\ pc' = "respond"
    /\ UNCHANGED <<args, cache, requests, stints_data, laps_data, result, calls,
                   lap_times, degradation, name>>
    /\ UNCHANGED <<conversation_history, state>>

\* __aexit__, run when the with block is left by a return or by an exception
ExitAnalyzer ==
    /\ pc = "exit"
    /\ session' = IF session # NoSession THEN "closed" ELSE session
    /\ pc' = "respond"
    /\ UNCHANGED <<args, cache, requests, stints_data, laps_data, result, calls,
                   lap_times, degradation, name>>
    /\ UNCHANGED <<conversation_history, state>>

\* the list goes back to the client: the one the with block returned, or the
\* text the except clause builds from the exception
Respond ==
    /\ pc = "respond"
    /\ result' = IF "raise" \in DOMAIN result
                 THEN <<TextContent([message |-> "Error ejecutando", name |-> name,
                                     cause |-> result["raise"]])>>
                 ELSE result["return"]
    /\ pc' = "idle"
    /\ UNCHANGED <<args, cache, requests, stints_data, laps_data, calls, lap_times,
                   degradation, session, name>>
    /\ UNCHANGED <<conversation_history, state>>

InitToolCall ==
    /\ pc = "idle"
    /\ args \in StrategyArgs
    /\ cache = <<>>
    /\ requests = <<>>
    /\ stints_data = <<>>
    /\ laps_data = <<>>
    /\ result = NoResult
    /\ calls = <<>>
    /\ lap_times = <<>>
    /\ degradation = None
    /\ session = NoSession
    /\ name = "analyze_tire_strategy"
    /\ conversation_history = <<>>
    /\ state = NewAdvisorState

NextToolCall ==
    \/ CallTool
    \/ EnterAnalyzer
    \/ Dispatch
    \/ FetchStints
    \/ FetchLaps
    \/ FetchDriversAndAnalyze
    \/ GetDriverInfo
    \/ GetSessionInfo
    \/ FormatResult
    \/ ExitAnalyzer
    \/ Respond

SpecToolCall == InitToolCall /\ [][NextToolCall]_vars

-----------------------------------------------------------------------------
(* The conversation memory of the chatbot (src/Chatbot.py, MCPChatbot) *)

\* entries a conversation adds before the model stops following it
MaxAdded == 22

\* the number of messages add_to_context keeps
HistoryLimit == 20

\* add_to_context keeping the oldest entries instead of the newest
add_to_context_keeping_oldest(history, role, content) ==
    IF Len(history) + 1 > HistoryLimit
    THEN SubSeq(Append(history, [role |-> role, content |-> content]),
                1, HistoryLimit)
    ELSE Append(history, [role |-> role, content |-> content])

\* add_to_context: append, then history[-20:] once there are more than 20
add_to_context(history, role, content) ==
    IF Len(history) + 1 > HistoryLimit
    THEN SubSeq(Append(history, [role |-> role, content |-> content]),
                Len(history) + 1 - HistoryLimit + 1, Len(history) + 1)
    ELSE Append(history, [role |-> role, content |-> content])

\* what process_query tells apart in user_input: the keywords of the
\* random-number shortcut, those of the server-status shortcut, neither
QueryKinds == {"random", "status", "other"}

\* the answers of the remote JSON-RPC server: a result, an error object,
\* a JSON-RPC 2.0 body with neither, and no usable answer at all
RemoteReplies == {"result", "error", "neither", "unreachable"}

\* call_remote_mcp_jsonrpc: the body with neither member falls through both
\* branches and the function returns None
call_remote_mcp_jsonrpc(reply) ==
    CASE reply = "result"  -> [success |-> TRUE]
      [] reply = "neither" -> None
      [] OTHER             -> [success |-> FALSE]

\* the value of the except branch of process_query
ProcessingError == [return |-> "Error procesando consulta"]

\* The text of an entry is never read by add_to_context: the n-th text
\* added since construction is written n, and calls lists every entry
\* add_to_context was called with.
NextContent == Len(calls) + 1

\* process_query from its first line to the first of: the return of a
\* shortcut, the exception handler, the call of messages.create.
\* result["success"] raises TypeError on None.
ProcessQuery ==
    /\ pc = "idle"
    /\ Len(calls) + 2 <= MaxAdded
    /\ \E kind \in QueryKinds, reply \in RemoteReplies :
          /\ name' = kind
          /\ IF kind = "other"
             THEN /\ conversation_history' =
                        add_to_context(conversation_history, "user", NextContent)
                  /\ calls' = Append(calls, [role |-> "user", content |-> NextContent])
                  /\ result' = NoResult
                  /\ pc' = "create"
             ELSE IF call_remote_mcp_jsonrpc(reply) = None
             THEN /\ conversation_history' =
                        add_to_context(conversation_history, "user", NextContent)
                  /\ calls' = Append(calls, [role |-> "user", content |-> NextContent])
                  /\ result' = ProcessingError
                  /\ pc' = "idle"
             ELSE /\ conversation_history' =
                        add_to_context(
                            add_to_context(conversation_history, "user", NextContent),
                            "assistant", NextContent + 1)
                  /\ calls' = calls \o <<[role |-> "user", content |-> NextContent],
                                         [role |-> "assistant", content |-> NextContent + 1]>>
                  /\ result' = [return |-> NextContent + 1]
                  /\ pc' = "idle"
    /\ UNCHANGED <<args, cache, requests, stints_data, laps_data, lap_times,
                   degradation, session, state>>

\* client.messages.create(messages=self.conversation_history) and the rest
\* of process_query: the answer is added and returned, or an exception of
\* the client or of handle_tool_calls reaches the handler
CreateMessage ==
    /\ pc = "create"
    /\ \E outcome \in {"response", "raise"} :
          IF outcome = "response"
          THEN /\ conversation_history' =
                     add_to_context(conversation_history, "assistant", NextContent)
               /\ calls' = Append(calls, [role |-> "assistant", content |-> NextContent])
               /\ result' = [return |-> NextContent]
          ELSE /\ result' = ProcessingError
               /\ UNCHANGED <<conversation_history, calls>>
    /\ pc' = "idle"
    /\ UNCHANGED <<args, cache, requests, stints_data, laps_data, lap_times,
                   degradation, session, name, state>>

InitChat ==
    /\ pc = "idle"
    /\ args = [session_key |-> 0, driver_number |-> 0]
    /\ cache = <<>>
    /\ requests = <<>>
    /\ stints_data = None
    /\ laps_data = None
    /\ result = NoResult
    /\ calls = <<>>
    /\ lap_times = <<>>
    /\ degradation = None
    /\ session = NoSession
    /\ name = "other"
    /\ conversation_history = <<>>
    /\ state = NewAdvisorState

NextChat ==
    \/ ProcessQuery
    \/ CreateMessage

SpecChat == InitChat /\ [][NextChat]_vars


-----------------------------------------------------------------------------
(* The build advisor of src/lol_mcp_server.py (class LoLAnalyzer) *)

\* str.upper() over the letters the menu uses
Upper(text) ==
    Text([i \in 1..Len(text[1]) |->
             CASE text[1][i] = "a" -> "A"
               [] text[1][i] = "p" -> "P"
               [] OTHER -> text[1][i]])

\* [e.lower() for e in enemy_team[:5]] raises AttributeError on an element
\* that is not a str
LowerRaises(enemy_team) ==
    \E i \in 1..Len(enemy_team) : i <= 5 /\ enemy_team[i] = None

\* the matchup after the assignments of the parameter branch of set_matchup
\* that run before the first exception: an absent, None or empty parameter
\* is skipped
UpdatedMatchup(mu, arguments) ==
    [k \in DOMAIN mu |->
        CASE k = "ally_champion" /\ Get(arguments, k) \notin {None, Text(<<>>)} ->
                 Lower(arguments[k])
          [] k = "ally_characteristic" /\ Get(arguments, k) \notin {None, Text(<<>>)} ->
                 Upper(arguments[k])
          [] k = "enemy_team" /\ Get(arguments, k) \notin {None, <<>>}
                              /\ ~LowerRaises(arguments[k]) ->
                 [i \in 1..(IF Len(arguments[k]) < 5 THEN Len(arguments[k]) ELSE 5) |->
                     Lower(arguments[k][i])]
          [] OTHER -> mu[k]]

\* what parse_intent_text returns: the dict of _fallback with its defaults,
\* and a dict read from the language model's JSON, which keeps whatever
\* other key the JSON had; the three keys are always normalised, the enemy
\* team to five names
ParsedIntents ==
    {[ally_champion       |-> Text(<<"d", "a", "r", "i", "u", "s">>),
      ally_characteristic |-> Text(<<"A", "D">>),
      enemy_team          |-> <<Text(<<"g", "a", "r", "e", "n">>),
                                Text(<<"m", "a", "o", "k", "a", "i">>),
                                Text(<<"a", "h", "r", "i">>),
                                Text(<<"j", "i", "n", "x">>),
                                Text(<<"l", "u", "l", "u">>)>>],
     [ally_champion       |-> Text(<<"s", "i", "o", "n">>),
      ally_characteristic |-> Text(<<"T", "A", "N", "K">>),
      enemy_team          |-> <<Text(<<"b", "a", "r", "d">>),
                                Text(<<"m", "a", "o", "k", "a", "i">>),
                                Text(<<"a", "h", "r", "i">>),
                                Text(<<"j", "i", "n", "x">>),
                                Text(<<"l", "u", "l", "u">>)>>,
      lane                |-> Text(<<"t", "o", "p">>)]}

\* _validate_state without the test of dd
_validate_state_without_data(st) ==
    /\ st.matchup.ally_champion # None
    /\ st.matchup.ally_characteristic # None
    /\ Len(st.matchup.enemy_team) > 0

\* _validate_state
_validate_state(st) ==
    /\ st.dd # None
    /\ st.matchup.ally_champion # None
    /\ st.matchup.ally_characteristic # None
    /\ Len(st.matchup.enemy_team) > 0

\* set_matchup: a text goes through parse_intent_text and dict.update; the
\* parameters are assigned one by one otherwise, and an exception leaves
\* the assignments made before it. calls is the set of the operations made
\* so far, each with the success member of its result.
SetMatchup ==
    /\ pc = "idle"
    /\ name' = "lol_set_matchup"
    /\ \E arguments \in
            {[text |-> Text(<<"S">>)],
             [ally_champion |-> Text(<<"S", "i", "o", "n">>)],
             [ally_characteristic |-> Text(<<"a", "p">>)],
             [enemy_team |-> <<Text(<<"B", "a", "r", "d">>)>>],
             [ally_champion |-> Text(<<>>), ally_characteristic |-> None,
              enemy_team |-> <<>>],
             [ally_champion |-> Text(<<"S", "i", "o", "n">>),
              ally_characteristic |-> Text(<<"a", "p">>),
              enemy_team |-> <<Text(<<"B", "a", "r", "d">>), None>>]} :
          IF Get(arguments, "text") \notin {None, Text(<<>>)}
          THEN \E data \in ParsedIntents :
                  /\ state' = [state EXCEPT !.matchup =
                                  [k \in DOMAIN state.matchup \cup DOMAIN data |->
                                      IF k \in DOMAIN data THEN data[k]
                                      ELSE state.matchup[k]]]
                  /\ result' = [success |-> TRUE, matchup |-> state'.matchup]
          ELSE /\ state' = [state EXCEPT !.matchup = UpdatedMatchup(state.matchup, arguments)]
               /\ result' =
                     IF Get(arguments, "enemy_team") \notin {None, <<>>}
                        /\ LowerRaises(arguments.enemy_team)
                     THEN [success |-> FALSE, error |-> "Error configurando matchup"]
                     ELSE [success |-> TRUE, matchup |-> state'.matchup]
    /\ calls' = calls \cup {[name |-> name', success |-> result'.success]}
    /\ UNCHANGED <<pc, args, cache, requests, stints_data, laps_data, lap_times,
                   degradation, session, conversation_history>>

\* fetch_static_data: lang is stored first; DDragonClient(lang) and
\* ensure_latest either give the version or raise, and dd and dd_version
\* are stored only after they returned
FetchStaticData ==
    /\ pc = "idle"
    /\ name' = "lol_fetch_data"
    /\ \E lang \in {"en_US", "es_ES"}, loaded \in BOOLEAN :
          IF loaded
          THEN /\ state' = [state EXCEPT !.lang = lang,
                                         !.dd = [lang |-> lang],
                                         !.dd_version = "14.1.1"]
               /\ result' = [success |-> TRUE, version |-> "14.1.1", lang |-> lang]
          ELSE /\ state' = [state EXCEPT !.lang = lang]
               /\ result' = [success |-> FALSE, error |-> "Error cargando datos"]
    /\ calls' = calls \cup {[name |-> name', success |-> result'.success]}
    /\ UNCHANGED <<pc, args, cache, requests, stints_data, laps_data, lap_times,
                   degradation, session, conversation_history>>

\* analyze_enemy_composition
AnalyzeEnemyComposition ==
    /\ pc = "idle"
    /\ name' = "lol_analyze_enemies"
    /\ \E analysed \in BOOLEAN :
          result' =
             IF state.dd = None
             THEN [success |-> FALSE, error |-> "Primero debes cargar los datos estáticos"]
             ELSE IF state.matchup.enemy_team = <<>>
             THEN [success |-> FALSE, error |-> "No hay equipo enemigo configurado"]
             ELSE IF analysed
             THEN [success |-> TRUE, enemy_team |-> state.matchup.enemy_team]
             ELSE [success |-> FALSE, error |-> "Error analizando composición"]
    /\ calls' = calls \cup {[name |-> name', success |-> result'.success]}
    /\ UNCHANGED <<pc, args, cache, requests, stints_data, laps_data, lap_times,
                   degradation, session, conversation_history, state>>

\* get_runes_suggestion, get_summoners_suggestion, get_items_suggestion:
\* the same three steps; analyze_enemy_comp and suggest_* give a value or
\* raise
GetSuggestion ==
    /\ pc = "idle"
    /\ \E tool \in {"lol_suggest_runes", "lol_suggest_summoners", "lol_suggest_items"},
          suggested \in BOOLEAN :
          /\ name' = tool
          /\ result' =
                IF ~_validate_state(state)
                THEN [success |-> FALSE,
                      error |-> "Estado incompleto. Configura matchup y carga datos primero."]
                ELSE IF suggested
                THEN [success |-> TRUE,
                      champion |-> state.matchup.ally_champion,
                      characteristic |-> state.matchup.ally_characteristic]
                ELSE [success |-> FALSE, error |-> "Error generando sugerencia"]
    /\ calls' = calls \cup {[name |-> name', success |-> result'.success]}
    /\ UNCHANGED <<pc, args, cache, requests, stints_data, laps_data, lap_times,
                   degradation, session, conversation_history, state>>

\* analyzer = LoLAnalyzer(), made once when the module is loaded
InitAdvisor ==
    /\ pc = "idle"
    /\ args = [session_key |-> 0, driver_number |-> 0]
    /\ cache = <<>>
    /\ requests = <<>>
    /\ stints_data = None
    /\ laps_data = None
    /\ result = NoResult
    /\ calls = {}
    /\ lap_times = <<>>
    /\ degradation = None
    /\ session = NoSession
    /\ name = "None"
    /\ conversation_history = <<>>
    /\ state = NewAdvisorState

NextAdvisor ==
    \/ SetMatchup
    \/ FetchStaticData
    \/ AnalyzeEnemyComposition
    \/ GetSuggestion

SpecAdvisor == InitAdvisor /\ [][NextAdvisor]_vars


-----------------------------------------------------------------------------
(* Properties of analyze_tire_strategy, checked under Spec *)

StrategyEndpoints == {"stints", "laps", "drivers"}

KeyOf(endpoint) == CacheKey(endpoint, StrategyParams(args))

\* the response to the fetch of the endpoint was memoized
Fetched(endpoint) == KeyOf(endpoint) \in DOMAIN cache

FetchedData(endpoint) == cache[KeyOf(endpoint)]

AllFetched == \A e \in StrategyEndpoints : Fetched(e)

\* the number of requests sent for the key
Count(r, key) == IF key \in DOMAIN r THEN r[key] ELSE 0

\* a request for the endpoint was sent and nothing was memoized: it failed
FailedFetch(endpoint) == KeyOf(endpoint) \in DOMAIN requests /\ ~Fetched(endpoint)

Done == pc = "done"

Succeeded == Done /\ "stints" \in DOMAIN result

IsFailure(r) == DOMAIN r = {"error"}

\* a valid lap of the specification: a recorded duration above zero
PositiveDuration(lap) ==
    /\ "lap_duration" \in DOMAIN lap
    /\ lap["lap_duration"] # None
    /\ lap["lap_duration"][1] > 0

CountValid(laps) == Cardinality({i \in 1..Len(laps) : PositiveDuration(laps[i])})

SumLapsCount(stints) == SumInts([i \in 1..Len(stints) |-> stints[i].laps_count])

\* C1 (as claimed; refuted by the descriptor-based path): in every
\* successful result the laps_count values of the stints add up to the
\* number of valid laps of the fetched lap list.
C1_ValidLapsCountedOnce ==
    Succeeded => SumLapsCount(result.stints) = CountValid(FetchedData("laps"))

\* C2: in every successful result total_pit_stops is the number of stints
\* less one, and never below zero.
C2_PitStopsMatchStints ==
    Succeeded =>
        result.total_pit_stops =
            (IF Len(result.stints) >= 1 THEN Len(result.stints) - 1 ELSE 0)

\* a descriptor-based result with two stints
C2_Witness ==
    /\ Succeeded
    /\ "note" \notin DOMAIN result
    /\ Len(result.stints) = 2
    /\ result.total_pit_stops = 1

\* C3: a result is either a failure with the error field alone, or a
\* success with all its fields and at least one stint.
C3_ResultIsTagged ==
    Done =>
        \/ IsFailure(result)
        \/ /\ {"driver_name", "driver_number", "session_key", "stints",
               "total_pit_stops"} \subseteq DOMAIN result
           /\ "error" \notin DOMAIN result
           /\ result.stints # <<>>

\* descriptors were returned, none was usable, and two stints were inferred
C3_Witness ==
    /\ Succeeded
    /\ FetchedData("stints") # <<>>
    /\ "note" \in DOMAIN result
    /\ Len(result.stints) = 2

\* C4: when the request of a fetch fails, the result is a failure whose
\* cause is the get_data error naming that endpoint.
C4_FetchFailureNamesEndpoint ==
    \A e \in StrategyEndpoints :
        (Done /\ FailedFetch(e)) =>
            /\ IsFailure(result)
            /\ "cause" \in DOMAIN result.error
            /\ "endpoint" \in DOMAIN result.error.cause
            /\ result.error.cause.endpoint = e

\* stints and laps were fetched and the drivers request failed
C4_Witness ==
    /\ Done
    /\ Fetched("stints")
    /\ Fetched("laps")
    /\ FailedFetch("drivers")

\* C5: when the three fetches succeed and no driver record is returned, the
\* result is the driver-not-found failure, whatever the laps and stints are.
C5_MissingDriverReported ==
    (Done /\ AllFetched /\ FetchedData("drivers") = <<>>) =>
        /\ IsFailure(result)
        /\ result.error.message = "No se encontro informacion del piloto"

\* no driver and no laps, with stint descriptors
C5_Witness ==
    /\ Done
    /\ AllFetched
    /\ FetchedData("drivers") = <<>>
    /\ FetchedData("laps") = <<>>
    /\ FetchedData("stints") # <<>>

NoLapDataMessages ==
    {"No se encontraron datos de vueltas",
     "No se encontraron tiempos de vuelta validos"}

\* C6: when the driver is found and no fetched lap has a positive duration,
\* the result is a no-lap-data failure.
C6_NoValidLapsReported ==
    (/\ Done
     /\ AllFetched
     /\ FetchedData("drivers") # <<>>
     /\ CountValid(FetchedData("laps")) = 0) =>
        /\ IsFailure(result)
        /\ result.error.message \in NoLapDataMessages

\* the driver is found, descriptors were returned, and the only laps are a
\* lap without duration and a lap with a negative duration
C6_Witness ==
    /\ Done
    /\ AllFetched
    /\ FetchedData("drivers") # <<>>
    /\ FetchedData("stints") # <<>>
    /\ Len(FetchedData("laps")) = 2
    /\ CountValid(FetchedData("laps")) = 0
    /\ \E i \in 1..2 : Get(FetchedData("laps")[i], "lap_duration") = None
    /\ \E i \in 1..2 : Get(FetchedData("laps")[i], "lap_duration") = Num(0 - 1)

StintBoundsOrdered(stint) ==
    /\ stint.laps_count >= 1
    /\ stint.start_lap # None
    /\ stint.end_lap # None
    /\ stint.start_lap[1] <= stint.end_lap[1]

\* C10 (as claimed; refuted by descriptors with a null or inverted range and
\* by a single lap with a null lap_number): every emitted stint has
\* laps_count >= 1 and integer start_lap <= end_lap.
C10_StintBoundsOrdered ==
    Succeeded => \A i \in 1..Len(result.stints) : StintBoundsOrdered(result.stints[i])

\* the stints of a result start in chronological order
Chronological(stints) ==
    \A i \in 1..(Len(stints) - 1) :
        /\ stints[i].start_lap # None
        /\ stints[i + 1].start_lap # None
        /\ stints[i].start_lap[1] <= stints[i + 1].start_lap[1]

\* C11 (as claimed; refuted by descriptors returned latest first): in every
\* successful result each stint starts at or after the start_lap of the stint
\* before it.
C11_StintsChronological ==
    Succeeded => Chronological(result.stints)

\* the laps a descriptor matches: those carrying its stint identifier, or,
\* when there is none, those whose lap number lies in its declared range
HasValue(d, k) == k \in DOMAIN d /\ d[k] # None

MatchedById(d, laps) ==
    SelectSeq(laps, LAMBDA lap : /\ HasValue(d, "stint_number")
                                 /\ HasValue(lap, "stint_number")
                                 /\ lap["stint_number"] = d["stint_number"])

MatchedByRange(d, laps) ==
    SelectSeq(laps, LAMBDA lap : /\ HasValue(d, "lap_start")
                                 /\ HasValue(d, "lap_end")
                                 /\ HasValue(lap, "lap_number")
                                 /\ d["lap_start"][1] <= lap["lap_number"][1]
                                 /\ lap["lap_number"][1] <= d["lap_end"][1])

MatchedLaps(d, laps) ==
    IF MatchedById(d, laps) # <<>> THEN MatchedById(d, laps) ELSE MatchedByRange(d, laps)

\* the descriptors that match at least one valid lap, in the order fetched
UsableDescriptors(stints, laps) ==
    SelectSeq(stints, LAMBDA d : CountValid(MatchedLaps(d, laps)) >= 1)

CompoundOf(d) == IF "compound" \in DOMAIN d THEN d["compound"] ELSE "Unknown"

\* the driver was found and the three datasets were fetched
Analyzed == Done /\ AllFetched /\ FetchedData("drivers") # <<>>

DescriptorBased(r) == "stints" \in DOMAIN r /\ "note" \notin DOMAIN r

\* C12 (as claimed; refuted by the TypeError of C24's min()/max() over a null
\* lap_number): when a descriptor matches a valid lap, the result has one
\* stint per descriptor that matched a valid lap, labelled with its compound,
\* one pit stop less than stints, and no estimation note.
C12_DescriptorsAuthoritative ==
    (Analyzed /\ UsableDescriptors(FetchedData("stints"), FetchedData("laps")) # <<>>) =>
        LET usable == UsableDescriptors(FetchedData("stints"), FetchedData("laps"))
        IN  /\ DescriptorBased(result)
            /\ Len(result.stints) = Len(usable)
            /\ \A i \in 1..Len(usable) : result.stints[i].compound = CompoundOf(usable[i])
            /\ result.total_pit_stops = Len(usable) - 1


\* the valid laps of a lap list, in the order fetched, and their durations
ValidLapsOf(laps) == SelectSeq(laps, PositiveDuration)

DurationsOf(laps) ==
    [i \in 1..Len(ValidLapsOf(laps)) |-> ValidLapsOf(laps)[i]["lap_duration"][1]]

\* the positions in a list of durations where the lap is more than 3.0
\* seconds faster than the lap before it
Crossings(d) == {i \in 2..Len(d) : d[i - 1] - d[i] > 3}

\* the first position of the k-th group cut at the crossings, and its last
GroupStart(d, k) ==
    CHOOSE s \in {1} \cup Crossings(d) :
        Cardinality({t \in {1} \cup Crossings(d) : t <= s}) = k

GroupEnd(d, k) ==
    IF k = 1 + Cardinality(Crossings(d)) THEN Len(d) ELSE GroupStart(d, k + 1) - 1

\* no descriptor matches a valid lap
NoUsableDescriptor ==
    UsableDescriptors(FetchedData("stints"), FetchedData("laps")) = <<>>

\* the stint is made of the valid laps d[first..last]; times are in thousandths
HoldsLaps(stint, d, first, last) ==
    /\ stint.laps_count = last - first + 1
    /\ stint.total_time = 1000 * SumInts(SubSeq(d, first, last))

\* C14: with no usable descriptor and three or more valid laps, a group
\* starts at a valid lap exactly when it is more than 3.0 s faster than the
\* valid lap before; with at least one such crossing the result has one stint
\* more than crossings, each holding the consecutive valid laps between them.
C14_SplitAboveThreshold ==
    (/\ Analyzed
     /\ NoUsableDescriptor
     /\ Len(DurationsOf(FetchedData("laps"))) >= 3
     /\ Crossings(DurationsOf(FetchedData("laps"))) # {}) =>
        LET d == DurationsOf(FetchedData("laps"))
        IN  /\ Succeeded
            /\ Len(result.stints) = 1 + Cardinality(Crossings(d))
            /\ result.total_pit_stops = Cardinality(Crossings(d))
            /\ \A k \in 1..Len(result.stints) :
                   HoldsLaps(result.stints[k], d, GroupStart(d, k), GroupEnd(d, k))

\* laps of 9, 5 and 2 seconds: 4 seconds faster splits, exactly 3 does not
C14_Witness ==
    /\ Analyzed
    /\ NoUsableDescriptor
    /\ DurationsOf(FetchedData("laps")) = <<9, 5, 2>>
    /\ Succeeded
    /\ Len(result.stints) = 2
    /\ result.stints[2].laps_count = 2


\* the marker of an unknown compound: "Unknown", which the code writes in
\* Spanish on the single-stint path
UnknownLabels == {"Unknown", "Desconocido"}

\* the result is the basic analysis of all valid laps as one stint
BasicSingleStint(r, d) ==
    /\ "stints" \in DOMAIN r
    /\ Len(r.stints) = 1
    /\ r.stints[1].laps_count = Len(d)
    /\ r.stints[1].compound \in UnknownLabels
    /\ r.total_pit_stops = 0
    /\ r.strategy_effectiveness = "Analisis basico - sin datos de stints"

\* C15 (as claimed; refuted by the TypeError of min()/max() over a null
\* lap_number, the bug of C24): with no usable descriptor, valid laps, and no
\* valid lap more than 3.0 s faster than the one before, the result is one
\* stint of all valid laps, of unknown compound, with no pit stop, annotated
\* as a basic analysis.
C15_SingleStintFallback ==
    (/\ Analyzed
     /\ NoUsableDescriptor
     /\ Len(DurationsOf(FetchedData("laps"))) >= 1
     /\ Crossings(DurationsOf(FetchedData("laps"))) = {}) =>
        BasicSingleStint(result, DurationsOf(FetchedData("laps")))


\* C16 (as claimed; refuted by the TypeError of min()/max() over a null
\* lap_number, the bug of C24): with no usable descriptor and one or two
\* valid laps, _detect_stints_from_lap_times returns the whole lap list as one
\* group and the result has exactly one stint, whatever the improvement
\* between the valid laps.
C16_NoSplitBelowThreeLaps ==
    (/\ Analyzed
     /\ NoUsableDescriptor
     /\ Len(DurationsOf(FetchedData("laps"))) \in {1, 2}) =>
        /\ _detect_stints_from_lap_times(FetchedData("laps")) = <<FetchedData("laps")>>
        /\ Succeeded
        /\ Len(result.stints) = 1


-----------------------------------------------------------------------------
(* Properties of _get_stint_laps, checked under SpecResolver *)

Resolved == pc = "resolved"

\* C17: when a lap carries the descriptor's stint_number, exactly the laps
\* that carry it are returned, whatever the lap range says; when none does,
\* the laps whose lap_number lies in lap_start..lap_end are returned.
C17_IdentifierBeforeRange ==
    Resolved =>
        /\ MatchedById(stints_data[1], laps_data) # <<>> =>
               result.stint_laps = MatchedById(stints_data[1], laps_data)
        /\ (/\ MatchedById(stints_data[1], laps_data) = <<>>
            /\ MatchedByRange(stints_data[1], laps_data) # <<>>) =>
               result.stint_laps = MatchedByRange(stints_data[1], laps_data)

\* the stint number selects a lap and the range selects another one
C17_Witness ==
    /\ Resolved
    /\ MatchedById(stints_data[1], laps_data) # <<>>
    /\ MatchedByRange(stints_data[1], laps_data) # <<>>
    /\ \E i \in 1..Len(MatchedByRange(stints_data[1], laps_data)) :
           \A j \in 1..Len(MatchedById(stints_data[1], laps_data)) :
               MatchedByRange(stints_data[1], laps_data)[i]
                   # MatchedById(stints_data[1], laps_data)[j]
    /\ result.stint_laps = MatchedById(stints_data[1], laps_data)


\* the descriptor matches no lap by stint identifier and none by lap range
Unmatched(d, laps) == MatchedById(d, laps) = <<>> /\ MatchedByRange(d, laps) = <<>>

\* laps[j * (L div k) .. (j + 1) * (L div k) - 1], counting laps from 0
EvenShare(laps, j, k) ==
    [i \in 1..(Len(laps) \div k) |-> laps[j * (Len(laps) \div k) + i]]

\* C18 (as claimed; refuted because Method 3 never finds the descriptor's
\* position): a descriptor that matches no lap by identifier or range, at
\* 0-based position j among k descriptors, receives the j-th of k even shares
\* of the lap list.
C18_PositionalFallback ==
    Analyzed =>
        \A j \in 1..Len(FetchedData("stints")) :
            Unmatched(FetchedData("stints")[j], FetchedData("laps")) =>
                _get_stint_laps(FetchedData("stints")[j], FetchedData("laps"))
                    = EvenShare(FetchedData("laps"), j - 1, Len(FetchedData("stints")))


\* the stint is the entry of the descriptor: its compound, and the total time
\* (in thousandths) of the valid laps the descriptor matches
EntryOf(stint, d, laps) ==
    /\ stint.compound = CompoundOf(d)
    /\ stint.laps_count >= 1
    /\ stint.total_time = 1000 * SumInts(DurationsOf(MatchedLaps(d, laps)))

\* C19: a descriptor-based result has one entry for each descriptor that
\* matched a lap with a positive duration, in order, and none for a
\* descriptor that matched no lap or invalid laps only.
C19_OneStintPerUsableDescriptor ==
    (Succeeded /\ DescriptorBased(result)) =>
        LET usable == UsableDescriptors(FetchedData("stints"), FetchedData("laps"))
        IN  /\ Len(result.stints) = Len(usable)
            /\ \A i \in 1..Len(usable) :
                   EntryOf(result.stints[i], usable[i], FetchedData("laps"))

\* two descriptors: one matched a valid lap, the other invalid laps only
C19_Witness ==
    /\ Succeeded
    /\ DescriptorBased(result)
    /\ Len(FetchedData("stints")) = 2
    /\ Len(result.stints) = 1
    /\ \E i \in 1..2 :
           /\ MatchedLaps(FetchedData("stints")[i], FetchedData("laps")) # <<>>
           /\ CountValid(MatchedLaps(FetchedData("stints")[i], FetchedData("laps"))) = 0


\* the durations of the valid laps that belong to the k-th stint of the
\* result: the laps its descriptor matches, all laps, or the k-th group
\* between crossings
StintDurations(k) ==
    IF DescriptorBased(result)
    THEN DurationsOf(MatchedLaps(
             UsableDescriptors(FetchedData("stints"), FetchedData("laps"))[k],
             FetchedData("laps")))
    ELSE IF Len(result.stints) = 1
    THEN DurationsOf(FetchedData("laps"))
    ELSE SubSeq(DurationsOf(FetchedData("laps")),
                GroupStart(DurationsOf(FetchedData("laps")), k),
                GroupEnd(DurationsOf(FetchedData("laps")), k))

\* total_time (in thousandths) is the sum of the durations
TotalIsSum(stint, d) == stint.total_time = 1000 * SumInts(d)

\* avg_lap_time (in thousandths) is the sum divided by the number of laps
AverageIsExactMean(stint, d) == Len(d) * stint.avg_lap_time = 1000 * SumInts(d)

\* avg_lap_time is the thousandth nearest to the sum divided by the number
AverageIsRoundedMean(stint, d) ==
    /\ 2 * (Len(d) * stint.avg_lap_time - 1000 * SumInts(d)) <= Len(d)
    /\ 2 * (1000 * SumInts(d) - Len(d) * stint.avg_lap_time) <= Len(d)

\* degradation_per_lap is computed from the durations
DegradationInputIs(stint, d) ==
    \E impl \in SumImpls : stint.degradation_per_lap = RoundedDegradation(impl, d)

\* C20 (as claimed; refuted by the rounding of the mean): for every emitted
\* stint total_time is the sum of the durations of its valid laps and
\* avg_lap_time is that sum divided by their number.
C20_TotalsOverValidLaps ==
    Succeeded =>
        \A k \in 1..Len(result.stints) :
            /\ TotalIsSum(result.stints[k], StintDurations(k))
            /\ AverageIsExactMean(result.stints[k], StintDurations(k))

\* C20 (amended): for every emitted stint total_time is the sum of the
\* durations of its valid laps and avg_lap_time is that sum divided by their
\* number, both rounded to three decimals; the degradation is computed from
\* the same durations, so laps without a positive duration contribute to none.
C20_RoundedTotalsOverValidLaps ==
    Succeeded =>
        \A k \in 1..Len(result.stints) :
            /\ StintDurations(k) # <<>>
            /\ TotalIsSum(result.stints[k], StintDurations(k))
            /\ AverageIsRoundedMean(result.stints[k], StintDurations(k))
            /\ DegradationInputIs(result.stints[k], StintDurations(k))

\* a stint of two valid laps next to a lap with a negative duration
C20_Witness ==
    /\ Succeeded
    /\ Len(FetchedData("laps")) = 3
    /\ \E i \in 1..3 : Get(FetchedData("laps")[i], "lap_duration") = Num(0 - 1)
    /\ Len(result.stints) = 1
    /\ StintDurations(1) = <<9, 5>>
    /\ result.stints[1].total_time = 14000
    /\ result.stints[1].avg_lap_time = 7000


\* the result was produced by the resolution of the stints: it has stints,
\* or it is an error only the resolution or the aggregation returns
ResolutionRan(r) ==
    \/ "stints" \in DOMAIN r
    \/ /\ "error" \in DOMAIN r
       /\ \/ r.error.message = "No se encontraron tiempos de vuelta validos"
          \/ /\ r.error.message = "Error analizando estrategia"
             /\ "type" \in DOMAIN r.error.cause

\* C22: no result of the stint resolution exists before the three fetches
\* have succeeded and the call is over; when a fetch has failed, the result of
\* the request is not one of the resolution.
C22_ResolutionAfterAllFetches ==
    /\ ResolutionRan(result) => (Done /\ AllFetched)
    /\ (\E e \in StrategyEndpoints : FailedFetch(e)) => ~ResolutionRan(result)

\* descriptors and valid laps were fetched, the drivers request failed
C22_Witness ==
    /\ Done
    /\ Fetched("stints")
    /\ FetchedData("stints") # <<>>
    /\ Fetched("laps")
    /\ CountValid(FetchedData("laps")) >= 1
    /\ FailedFetch("drivers")
    /\ IsFailure(result)


\* the place of the fetch among the three of analyze_tire_strategy
FetchOrder(endpoint) ==
    CASE endpoint = "stints" -> 1
      [] endpoint = "laps" -> 2
      [] endpoint = "drivers" -> 3

\* C23: no request is sent twice during a call, a get_data call sends at most
\* one request, and once a request has failed the call is over with a failure
\* result, the failed request being the last one sent.
C23_NoRetry ==
    /\ [](/\ \A k \in DOMAIN requests : requests[k] <= 1
          /\ \A e \in StrategyEndpoints :
                 FailedFetch(e) =>
                     /\ Done
                     /\ IsFailure(result)
                     /\ RequestsSent(requests) = FetchOrder(e)
                     /\ \A f \in StrategyEndpoints :
                            FetchOrder(f) > FetchOrder(e) => KeyOf(f) \notin DOMAIN requests)
    /\ [][RequestsSent(requests') <= RequestsSent(requests) + 1]_vars

\* the request for the laps failed after the descriptors were fetched, and
\* no request for the drivers followed
C23_Witness ==
    /\ Done
    /\ Fetched("stints")
    /\ FailedFetch("laps")
    /\ Count(requests, KeyOf("laps")) = 1
    /\ Count(requests, KeyOf("drivers")) = 0
    /\ IsFailure(result)


\* C24 (as claimed; refuted by min() and max() over a null lap_number):
\* when the three fetches succeed, the driver is found and a lap has a
\* positive duration, the result is a success, whatever the descriptors and
\* the other laps are.
C24_ValidLapGivesSuccess ==
    (Analyzed /\ CountValid(FetchedData("laps")) >= 1) => Succeeded


-----------------------------------------------------------------------------
(* Properties of _analyze_from_laps_only, checked under SpecLapsOnly *)

FellBack == pc = "fell_back"

\* the compound names of the tyres
CompoundNames == {"SOFT", "MEDIUM", "HARD", "INTERMEDIATE", "WET"}

EstimatedAnnotation == "Analisis estimado - stints detectados por cambios de tiempo"

\* C21: when the lap times split into more than one group, the m emitted
\* stints are labelled "Stint 1" .. "Stint m" in order, none carries a
\* compound name, and the result carries the estimated annotation.
C21_InferredStintsNumbered ==
    (/\ FellBack
     /\ Len(DurationsOf(laps_data)) >= 3
     /\ Crossings(DurationsOf(laps_data)) # {}) =>
        /\ "stints" \in DOMAIN result
        /\ Len(result.stints) = 1 + Cardinality(Crossings(DurationsOf(laps_data)))
        /\ \A k \in 1..Len(result.stints) :
               /\ result.stints[k].compound = "Stint " \o ToString(k)
               /\ result.stints[k].compound \notin CompoundNames
        /\ result.strategy_effectiveness = EstimatedAnnotation
        /\ "note" \in DOMAIN result

\* three groups of one lap each
C21_Witness ==
    /\ FellBack
    /\ DurationsOf(laps_data) = <<9, 5, 1>>
    /\ "stints" \in DOMAIN result
    /\ Len(result.stints) = 3
    /\ result.stints[3].compound = "Stint 3"

\* the lap numbers of the valid laps that carry one
ValidLapNumbers(laps) ==
    {laps[i]["lap_number"][1] : i \in {j \in 1..Len(laps) : /\ PositiveDuration(laps[j])
                                                             /\ HasValue(laps[j], "lap_number")}}

\* the result is the single-stint one of the fallback
SingleStintFallback(r) ==
    /\ "stints" \in DOMAIN r
    /\ r.strategy_effectiveness = "Analisis basico - sin datos de stints"

\* C26 (as claimed; refuted by a lap with a negative duration): in the
\* single-stint fallback start_lap and end_lap are the lowest and the highest
\* lap number of the valid laps, those counted in laps_count.
C26_BoundsOverValidLaps ==
    (/\ FellBack
     /\ SingleStintFallback(result)
     /\ ValidLapNumbers(laps_data) # {}) =>
        /\ result.stints[1].laps_count = CountValid(laps_data)
        /\ result.stints[1].start_lap # None
        /\ result.stints[1].end_lap # None
        /\ \A n \in ValidLapNumbers(laps_data) :
               /\ result.stints[1].start_lap[1] <= n
               /\ n <= result.stints[1].end_lap[1]
        /\ result.stints[1].start_lap[1] \in ValidLapNumbers(laps_data)
        /\ result.stints[1].end_lap[1] \in ValidLapNumbers(laps_data)



-----------------------------------------------------------------------------
(* Properties of handle_call_tool, checked under SpecToolCall *)

\* handle_call_tool has returned its list to the client
Responded == pc = "idle" /\ result # NoResult

\* the step sends an HTTP request
SendsRequest == pc # "idle" /\ RequestsSent(requests') > RequestsSent(requests)

\* C27: every tool call starts on a new analyzer with an empty cache and no
\* session; a request is sent only while the session is open; and when the
\* response is returned the session is closed, whether the call ended with a
\* result, an error result, an unknown tool or an exception.
C27_SessionSpansCall ==
    /\ [](Responded => session = "closed")
    /\ [][/\ (pc = "idle" /\ pc' # "idle") =>
                 (cache' = <<>> /\ requests' = <<>> /\ session' = NoSession)
          /\ SendsRequest => (session = "open" /\ session' = "open")
          /\ (session = "closed" /\ session' # "closed") => pc = "idle"]_vars

\* a call of analyze_tire_strategy without driver_number was answered with
\* the text of the KeyError
C27_Witness ==
    /\ Responded
    /\ session = "closed"
    /\ name = "analyze_tire_strategy"
    /\ "driver_number" \notin DOMAIN args
    /\ result[1].text.message = "Error ejecutando"
    /\ cache = <<>>

-----------------------------------------------------------------------------
(* Properties of get_data, checked under SpecFetcher *)

\* two params dicts are equal when they hold the same items, in any order
SameDict(p, q) == {p[i] : i \in DOMAIN p} = {q[i] : i \in DOMAIN q}

\* C7 (as claimed; refuted by a call repeated after a failure and by two
\* calls in flight together): at most one request is ever sent for one
\* (endpoint, params) pair.
C7_OneRequestPerPair ==
    \A e \in Endpoints, p \in ParamsValues :
        LET same == {k \in DOMAIN requests : k[1] = e /\ SameDict(k[2], p)}
        IN  RequestsSent([k \in same |-> requests[k]]) <= 1

\* C7 (amended): a get_data call that starts while the cache holds its key
\* sends no request and returns the memoized response.
C7_MemoizedKeyNotRequested ==
    [][\A c \in Callers : \A k \in DOMAIN cache :
          (/\ calls[c].state # "waiting"
           /\ calls'[c] # calls[c]
           /\ calls'[c].key = k) =>
              /\ requests' = requests
              /\ calls'[c].state = "returned"
              /\ calls'[c].data = cache[k]]_vars

\* a caller was answered from the cache after another request had failed
C7_Witness ==
    \E c \in Callers, d \in Callers :
        /\ calls[c].state = "returned"
        /\ ~calls[c].requested
        /\ Count(requests, calls[c].key) = 1
        /\ calls[d].state = "raised"

\* the step ends a get_data call of caller c with an exception
CallFails(c) == calls[c].state = "waiting" /\ calls'[c].state = "raised"

\* the step stores under key k the body caller c received with status 200
StoresReceived(c, k) ==
    /\ calls[c].state = "waiting"
    /\ calls[c].key = k
    /\ calls'[c].state = "returned"
    /\ calls'[c].requested
    /\ calls'[c].data = cache'[k]

\* the step starts a call of caller c with the key of its failed call
CallsAgain(c) ==
    /\ calls[c].state = "raised"
    /\ calls'[c] # calls[c]
    /\ calls'[c].key = calls[c].key

\* C25: a get_data call that fails leaves the cache as it was; an entry
\* enters the cache only as the body of a response received with status 200;
\* and the call that follows a failed one with the same key, nothing being
\* memoized for it, sends a new request.
C25_FailureNotMemoized ==
    [][/\ \A c \in Callers : CallFails(c) => cache' = cache
       /\ \A k \in DOMAIN cache' :
              (k \notin DOMAIN cache \/ cache'[k] # cache[k]) =>
                  \E c \in Callers : StoresReceived(c, k)
       /\ \A c \in Callers :
              (CallsAgain(c) /\ calls[c].key \notin DOMAIN cache) =>
                  /\ calls'[c].state = "waiting"
                  /\ Count(requests', calls[c].key) = Count(requests, calls[c].key) + 1]_vars

\* a caller alone on the analyzer waits for the answer to its second request
\* for a key, the first having failed
C25_Witness ==
    \E c \in Callers :
        /\ \A d \in Callers \ {c} : calls[d].state = "idle"
        /\ calls[c].state = "waiting"
        /\ Count(requests, calls[c].key) = 2
        /\ RequestsSent(requests) = 2
        /\ cache = <<>>

-----------------------------------------------------------------------------
(* Properties of _calculate_degradation, checked under SpecDegradation *)

Estimated == pc = "estimated"

\* C8: for fewer than three lap times the result is exactly 0.0.
C8_ZeroBelowThreePoints ==
    (Estimated /\ Len(lap_times) < 3) => degradation = <<0, 1>>

\* two different lap times
C8_Witness ==
    /\ Estimated
    /\ Len(lap_times) = 2
    /\ lap_times[1] # lap_times[2]

StrictlyIncreasing(t) == \A i \in 1..(Len(t) - 1) : t[i] < t[i + 1]

StrictlyDecreasing(t) == \A i \in 1..(Len(t) - 1) : t[i] > t[i + 1]

Constant(t) == \A i \in 1..(Len(t) - 1) : t[i] = t[i + 1]

\* the sign of the result follows the trend of the lap times
SignFollowsTrend(t, slope) ==
    /\ StrictlyIncreasing(t) => slope[1] > 0 /\ slope[2] > 0
    /\ StrictlyDecreasing(t) => slope[1] < 0 /\ slope[2] > 0
    /\ Constant(t) => slope[1] = 0

\* sum of i * t_i and of t_i over the index 0..n-1, in exact arithmetic
ExactXY(t) == SumInts([i \in 1..Len(t) |-> (i - 1) * t[i]])

ExactY(t) == SumInts(t)

\* sum of the index 0..n-1
ExactX(n) == (n * (n - 1)) \div 2

\* no float operation of the numerator rounds: for positive lap times every
\* intermediate value is at most one of these two products
NoRounding(t) ==
    /\ Len(t) * ExactXY(t) < Pow2(FloatBits)
    /\ ExactX(Len(t)) * ExactY(t) < Pow2(FloatBits)

\* C9 (as claimed; refuted by rounding): for three or more lap times the
\* result is positive for a strictly increasing sequence, negative for a
\* strictly decreasing one and zero for a constant one.
C9_SignFollowsTrend ==
    (Estimated /\ Len(lap_times) >= 3) => SignFollowsTrend(lap_times, degradation)

\* C9 (amended): for three or more lap times whose sums and products are
\* computed without rounding, the result is the least-squares slope over the
\* index 0..n-1, with a non-zero denominator, and its sign follows the trend.
C9_ExactSlopeFollowsTrend ==
    (Estimated /\ Len(lap_times) >= 3 /\ NoRounding(lap_times)) =>
        LET n == Len(lap_times)
        IN  /\ degradation[1] = n * ExactXY(lap_times) - ExactX(n) * ExactY(lap_times)
            /\ 12 * degradation[2] = n * n * (n * n - 1)
            /\ degradation[2] # 0
            /\ SignFollowsTrend(lap_times, degradation)

\* three increasing lap times whose sums are exact
C9_Witness ==
    /\ Estimated
    /\ lap_times = <<2, 5, 9>>
    /\ NoRounding(lap_times)
    /\ degradation[1] > 0


-----------------------------------------------------------------------------
(* Properties of the conversation memory, checked under SpecChat *)

\* the n entries added last, in the order they were added
MostRecent(added, n) ==
    [i \in 1..(IF Len(added) < n THEN Len(added) ELSE n) |->
        added[(IF Len(added) < n THEN 0 ELSE Len(added) - n) + i]]

\* C28: after any sequence of add_to_context calls, conversation_history
\* holds at most 20 entries, and they are exactly the entries added last
\* (up to 20 of them), in the order they were added.
C28_HistoryIsMostRecent ==
    /\ Len(conversation_history) <= HistoryLimit
    /\ conversation_history = MostRecent(calls, HistoryLimit)

\* more than 20 entries were added, among them a query that ended in an
\* exception, and the two oldest were dropped
C28_Witness ==
    /\ Len(calls) = HistoryLimit + 2
    /\ Len(conversation_history) = HistoryLimit
    /\ conversation_history[1] = calls[3]
    /\ \E i \in 1..(Len(calls) - 1) :
          calls[i].role = "user" /\ calls[i + 1].role = "user"

\* roles alternate, beginning with a user entry
Alternates(history) ==
    \A i \in 1..Len(history) :
        history[i].role = (IF i % 2 = 1 THEN "user" ELSE "assistant")

\* C29: after any sequence of process_query calls, the conversation history
\* passed to the model strictly alternates between user and assistant
\* entries and begins with a user entry.
C29_PassedHistoryAlternates ==
    pc = "create" => Alternates(conversation_history)


-----------------------------------------------------------------------------
(* Properties of the build advisor, checked under SpecAdvisor *)

SuggestionTools == {"lol_suggest_runes", "lol_suggest_summoners", "lol_suggest_items"}

\* an earlier fetch_static_data succeeded and the matchup has an ally
\* champion, an ally characteristic and a non-empty enemy team
AdvisorReady ==
    /\ [name |-> "lol_fetch_data", success |-> TRUE] \in calls
    /\ state.matchup.ally_champion # None
    /\ state.matchup.ally_characteristic # None
    /\ state.matchup.enemy_team # <<>>

\* C30: after any sequence of tool operations, the three suggestion tools
\* return success only if an earlier fetch_static_data succeeded and the
\* matchup has an ally champion, an ally characteristic and a non-empty
\* enemy team; otherwise they return the incomplete-state error and leave
\* the advisor state unchanged.
C30_SuggestionsNeedCompleteState ==
    [][name' \in SuggestionTools =>
          /\ result'.success => AdvisorReady
          /\ ~AdvisorReady =>
                /\ result' = [success |-> FALSE,
                              error |-> "Estado incompleto. Configura matchup y carga datos primero."]
                /\ state' = state]_vars

\* a suggestion succeeded although the fetch that followed the successful
\* one failed, and a suggestion asked before the matchup was set was refused
C30_Witness ==
    /\ name \in SuggestionTools
    /\ result.success
    /\ state.lang # state.dd.lang
    /\ [name |-> "lol_fetch_data", success |-> FALSE] \in calls
    /\ \E tool \in SuggestionTools : [name |-> tool, success |-> FALSE] \in calls

=============================================================================
